---- MODULE Spec2Model ----
(***************************************************************************)
(* A model of the CFAPractice quiz application: the mistake store and its  *)
(* remote key-value client, the question normaliser, the scorer and the    *)
(* path guard of the play view.                                            *)
(*                                                                         *)
(* Each part has its own specification over its own variables; the         *)
(* variables of the other parts stay at their idle values.                 *)
(***************************************************************************)
EXTENDS Integers, Sequences, FiniteSets, TLC

VARIABLES
    env,        \* the two environment values read by _upstash_cfg
    remote,     \* the remote list mcq:m:mistakes, head first (LPUSH prepends)
    file,       \* the local file data/mistakes.json
    file0,      \* history: the local file when the process started
    appended,   \* history: the objects handed to _append_mistake, in call order
    ioFault,    \* history: some file operation failed with an OSError
    last,       \* the last operation: its inputs, the client's answer, its result
    calls,      \* number of operations run so far
    norm,       \* the normaliser: its input and its result
    score,      \* the scorer: its input and its result
    play,       \* the play view: the requested name and the response
    fix,        \* text repair: its input and its results
    bf,         \* the backfill command: its position and what it fetched
    procs,      \* requests running an operation of the store step by step
    api,        \* the submit endpoints: the request body and the response
    home,       \* the catalog view: the files under data/ and the groups shown
    cnt,        \* the count endpoint: the answer it gave
    san,        \* the money rewriter: its input and its results
    quiz,       \* a quiz page: the order displayed and the order scored
    sess        \* the single-question trainer: the session and the question list

storeVars == <<env, remote, file, file0, appended, ioFault, last, calls>>
viewVars == <<home, cnt, san, quiz, sess>>
vars ==
    <<env, remote, file, file0, appended, ioFault, last, calls, norm, score, play, fix, bf,
      procs, api, home, cnt, san, quiz, sess>>

-----------------------------------------------------------------------------
(* Bounds of the model.                                                    *)

MaxOps == 3

-----------------------------------------------------------------------------
(* Values.                                                                 *)

\* os.environ.get(name): unset, set to the empty string, or set.
EnvValues == {"unset", "", "set"}

\* The objects recorded as mistakes.  qSurrogate stands for an object one of
\* whose strings holds a lone UTF-16 surrogate: json.loads accepts the escape
\* "\ud83d", json.dumps(ensure_ascii=False) writes the character back raw, and
\* no UTF-8 encoder (Path.write_text, urllib.parse.quote) accepts it.
Objs == {"q1", "q2", "qSurrogate"}

Utf8Encodable(obj) == obj # "qSurrogate"

\* json.dumps(obj, ensure_ascii=False): the payload string.
JsonDumps(obj) == <<"json", obj>>

\* A list entry that is not JSON, left in the remote list by another writer.
Junk == <<"text", "junk">>

\* What one HTTP request can meet.
\*   unreachable  connection error, timeout or HTTP error status before the
\*                command is applied: urlopen raises
\*   lost         the store applies the command, the answer times out: urlopen raises
\*   result       the store applies the command and answers {"result": v}
\*   both         the store applies the command and answers {"result": v, "error": m}
\*   error        the store refuses and answers {"error": m}
\*   oddresult    an answer {"result": s} whose s is a string
\*   raw          a body that is not JSON
\*   nondict      a JSON body that is not an object
NetOutcomes == {"unreachable", "lost", "result", "both", "error", "oddresult", "raw", "nondict"}

ServerApplies(net) == net \in {"lost", "result", "both"}

\* Outcome of the file operations of one call: they work, or one of them
\* raises OSError (read-only or full file system, permissions).
IoOutcomes == {"ok", "oserror"}

\* JSON values found under "result".
NoVal == [t |-> "none", n |-> 0, l |-> <<>>]
IntVal(n) == [t |-> "int", n |-> n, l |-> <<>>]
ListVal(l) == [t |-> "list", n |-> 0, l |-> l]
StrVal == [t |-> "str", n |-> 0, l |-> <<>>]

\* What _upstash_call hands to its caller.
\*   kind "none"  Python None
\*   kind "dict"  a mapping; hasResult / hasError / raw say which keys it holds
\*   kind "other" a JSON value that is not a mapping
\*   kind "raise" an exception leaves _upstash_call
Response(kind, hasResult, hasError, raw, result) ==
    [kind |-> kind, hasResult |-> hasResult, hasError |-> hasError,
     raw |-> raw, result |-> result]

None == Response("none", FALSE, FALSE, FALSE, NoVal)
Raise == Response("raise", FALSE, FALSE, FALSE, NoVal)

\* The local file.
FileMissing == [kind |-> "missing", items |-> <<>>]
FileBlank == [kind |-> "blank", items |-> <<>>]
FileNonList == [kind |-> "nonlist", items |-> <<>>]
FileCorrupt == [kind |-> "corrupt", items |-> <<>>]
FileList(items) == [kind |-> "list", items |-> items]

-----------------------------------------------------------------------------
(* The remote key-value client.                                            *)

\* _upstash_cfg testing the URL alone.
UpstashCfgUrlOnly(e) == e.url \notin {"unset", ""}

\* _upstash_cfg: both values present and non-empty.
UpstashCfg(e) == e.url \notin {"unset", ""} /\ e.token \notin {"unset", ""}

\* json.loads(body) of _upstash_call, with its inner except.
DecodeBody(net, value) ==
    CASE net = "result" -> Response("dict", TRUE, FALSE, FALSE, value)
      [] net = "both" -> Response("dict", TRUE, TRUE, FALSE, value)
      [] net = "error" -> Response("dict", FALSE, TRUE, FALSE, NoVal)
      [] net = "oddresult" -> Response("dict", TRUE, FALSE, FALSE, StrVal)
      [] net = "nondict" -> Response("other", FALSE, FALSE, FALSE, NoVal)
      [] OTHER -> Response("dict", FALSE, FALSE, TRUE, NoVal)

\* The request leaves the process: the client is configured and
\* urllib.parse.quote could encode every argument.
RequestSent(e, argsOk) == UpstashCfg(e) /\ argsOk

\* _upstash_call without its outer try: a transport failure leaves the function.
UpstashCallNoTry(e, argsOk, net, value) ==
    IF ~UpstashCfg(e) THEN None
    ELSE IF ~argsOk \/ net \in {"unreachable", "lost"} THEN Raise
    ELSE DecodeBody(net, value)

\* _upstash_call(command, *args); value is what the store answers.
UpstashCall(e, argsOk, net, value) ==
    IF ~UpstashCfg(e) THEN None
    ELSE IF ~argsOk \/ net \in {"unreachable", "lost"} THEN None
    ELSE DecodeBody(net, value)

\* _upstash_scalar: the "result" of a mapping, else None.
UpstashScalar(res) ==
    IF res.kind = "dict" /\ res.hasResult THEN res.result ELSE NoVal

-----------------------------------------------------------------------------
(* The mistake store.                                                      *)

\* The success test of _append_mistake.
PushSucceeded(res) == res.kind = "dict" /\ (res.hasResult \/ ~res.hasError)

\* A fallback that writes the new record in front of the others.
LocalPrepend(f, obj, io) ==
    IF io = "oserror" THEN f
    ELSE IF f.kind = "corrupt" THEN f
    ELSE LET items == IF f.kind = "list" THEN f.items ELSE <<>>
         IN IF Utf8Encodable(obj) THEN FileList(<<obj>> \o items) ELSE FileBlank

\* The fallback of _append_mistake: everything inside its try.  An OSError
\* (mkdir, read_text, open) or a json.loads error leaves the file as it was;
\* write_text opens the file for writing, which truncates it, before the
\* encoder meets a character it cannot encode.
LocalAppend(f, obj, io) ==
    IF io = "oserror" THEN f
    ELSE IF f.kind = "corrupt" THEN f
    ELSE LET items == IF f.kind = "list" THEN f.items ELSE <<>>
         IN IF Utf8Encodable(obj) THEN FileList(Append(items, obj)) ELSE FileBlank

\* json.loads(x) of one LRANGE entry succeeds on what json.dumps wrote.
JsonLoadable(x) == x[1] = "json"

\* The LRANGE loop of _load_mistakes_list: the entries that decode, in order.
DecodeEntries(res) ==
    IF res.kind = "dict" /\ res.hasResult /\ res.result.t = "list"
    THEN LET ok == SelectSeq(res.result.l, JsonLoadable)
         IN [i \in DOMAIN ok |-> ok[i][2]]
    ELSE <<>>

\* The file fallback of _load_mistakes_list.
LocalList(f, io) ==
    IF io = "ok" /\ f.kind = "list" THEN f.items ELSE <<>>

\* A list that adds the file's records to the remote ones.
ListItemsBoth(res, f, io) == DecodeEntries(res) \o LocalList(f, io)

\* What _load_mistakes_list returns, given the client's answer.
ListItems(res, f, io) ==
    LET items == DecodeEntries(res)
    IN IF items = <<>> /\ f.kind # "missing" THEN LocalList(f, io) ELSE items

\* What _mistakes_count returns, given the client's answer.
CountValue(res, f, io) ==
    LET n == UpstashScalar(res)
    IN IF n.t = "int" THEN n.n
       ELSE IF io = "ok" /\ f.kind = "list" THEN Len(f.items) ELSE 0

Last(op, obj, net, io, res, sent, fellBack, items, count) ==
    [op |-> op, obj |-> obj, net |-> net, io |-> io, res |-> res, sent |-> sent,
     fellBack |-> fellBack, items |-> items, count |-> count]

NoLast == Last("none", "q1", "unreachable", "ok", None, FALSE, FALSE, <<>>, 0)

\* The environment's part in one call: the network has an outcome only when a
\* request is sent, the file system only when the fallback touches the file.
NetFor(sent) == IF sent THEN NetOutcomes ELSE {"unreachable"}
IoFor(touched) == IF touched THEN IoOutcomes ELSE {"ok"}

-----------------------------------------------------------------------------
(* Text.  A string is a sequence of characters; the characters that matter *)
(* to the code are named, every other one is of a class.                   *)
(*   "x" "y" "z"      ASCII letters without a role                         *)
(*   "A" "B" "C" "a" "b" "c" "." " "   answer letters and what surrounds   *)
(*   "0" "1" "2"      digits                                               *)
(*   "â"              U+00E2, Latin-1 byte E2: the lead byte of a 3-byte   *)
(*                    UTF-8 sequence                                       *)
(*   "c82" "cAC"      U+0082 and U+00AC, Latin-1 bytes 82 and AC:          *)
(*                    continuation bytes; E2 82 AC is UTF-8 for U+20AC     *)
(*   "€"              U+20AC, not in Latin-1                               *)
(*   "fffd"           U+FFFD, not in Latin-1                               *)
(*   "wide"           any other character outside Latin-1 (U+2000-U+2FFF)  *)

Ascii == {"x", "y", "z", "A", "B", "C", "a", "b", "c", ".", " ", "0", "1", "2"}

\* ord(c) of the characters Latin-1 can encode.
Latin1Byte(c) ==
    CASE c = "â" -> 226
      [] c = "c82" -> 130
      [] c = "cAC" -> 172
      [] c = "x" -> 120 [] c = "y" -> 121 [] c = "z" -> 122
      [] c = "A" -> 65 [] c = "B" -> 66 [] c = "C" -> 67
      [] c = "a" -> 97 [] c = "b" -> 98 [] c = "c" -> 99
      [] c = "." -> 46 [] c = " " -> 32
      [] c = "0" -> 48 [] c = "1" -> 49 [] c = "2" -> 50

InLatin1(c) == c \in Ascii \cup {"â", "c82", "cAC"}

\* val.encode("latin1", errors="ignore")
RECURSIVE EncodeLatin1Ignore(_)
EncodeLatin1Ignore(val) ==
    IF val = <<>> THEN <<>>
    ELSE IF InLatin1(Head(val))
         THEN <<Latin1Byte(Head(val))>> \o EncodeLatin1Ignore(Tail(val))
         ELSE EncodeLatin1Ignore(Tail(val))

AsciiChar(byte) == CHOOSE c \in Ascii : Latin1Byte(c) = byte

IsContinuation(byte) == byte >= 128 /\ byte <= 191

\* The character of the 3-byte sequence E2 b2 b3.
ThreeByteChar(b2, b3) == IF b2 = 130 /\ b3 = 172 THEN "€" ELSE "wide"

\* bytes.decode("utf-8", errors="ignore") over the bytes above: an ASCII byte
\* is its character; E2 with two continuation bytes is one character; an
\* invalid or truncated sequence is dropped as far as it was well-formed.
RECURSIVE DecodeUtf8Ignore(_)
DecodeUtf8Ignore(bytes) ==
    IF bytes = <<>> THEN <<>>
    ELSE IF bytes[1] < 128
         THEN <<AsciiChar(bytes[1])>> \o DecodeUtf8Ignore(Tail(bytes))
    ELSE IF bytes[1] = 226 /\ Len(bytes) >= 2 /\ IsContinuation(bytes[2])
         THEN IF Len(bytes) >= 3 /\ IsContinuation(bytes[3])
              THEN <<ThreeByteChar(bytes[2], bytes[3])>>
                       \o DecodeUtf8Ignore(SubSeq(bytes, 4, Len(bytes)))
              ELSE DecodeUtf8Ignore(SubSeq(bytes, 3, Len(bytes)))
    ELSE DecodeUtf8Ignore(Tail(bytes))

\* The marker test of _fix_mojibake.
HasMarker(val) == \E i \in DOMAIN val : val[i] \in {"â", "fffd", "€"}

\* _fix_mojibake on a string.
FixMojibakeStr(val) ==
    IF HasMarker(val)
    THEN LET fixed == DecodeUtf8Ignore(EncodeLatin1Ignore(val))
         IN IF fixed # <<>> /\ fixed # val THEN fixed ELSE val
    ELSE val

\* str.strip(): leading and trailing white space removed.
RECURSIVE LStrip(_)
LStrip(str) == IF str # <<>> /\ Head(str) = " " THEN LStrip(Tail(str)) ELSE str

RECURSIVE RStrip(_, _)
RStrip(str, ch) ==
    IF str # <<>> /\ str[Len(str)] = ch THEN RStrip(SubSeq(str, 1, Len(str) - 1), ch) ELSE str

Strip(str) == RStrip(LStrip(str), " ")

\* str.upper()
UpperChar(c) == CASE c = "a" -> "A" [] c = "b" -> "B" [] c = "c" -> "C" [] OTHER -> c
Upper(str) == [i \in DOMAIN str |-> UpperChar(str[i])]

\* int(str): an optional surrounding white space and decimal digits.
DigitValue(c) == CASE c = "0" -> 0 [] c = "1" -> 1 [] c = "2" -> 2

IsDecimal(str) == str # <<>> /\ \A i \in DOMAIN str : str[i] \in {"0", "1", "2"}

RECURSIVE DecimalValue(_)
DecimalValue(str) ==
    IF str = <<>> THEN 0
    ELSE 10 * DecimalValue(SubSeq(str, 1, Len(str) - 1)) + DigitValue(str[Len(str)])

-----------------------------------------------------------------------------
(* Python values as the normaliser meets them in decoded JSON.             *)
(*   absent   the key is not in the record (q.get gives None)              *)
(*   none     JSON null                                                    *)
(*   str      s: the characters                                            *)
(*   int      n                                                            *)
(*   list     l: its elements, strings                                     *)
(*   dict     d: its <<key, value>> pairs in iteration order, keys and     *)
(*            values strings                                               *)

PyVal(t, str, n, l, d) == [t |-> t, s |-> str, n |-> n, l |-> l, d |-> d]
PyAbsent == PyVal("absent", <<>>, 0, <<>>, <<>>)
PyNone == PyVal("none", <<>>, 0, <<>>, <<>>)
PyStr(str) == PyVal("str", str, 0, <<>>, <<>>)
PyInt(n) == PyVal("int", <<>>, n, <<>>, <<>>)
PyList(l) == PyVal("list", <<>>, 0, l, <<>>)
PyDict(d) == PyVal("dict", <<>>, 0, <<>>, d)

\* q.get(key)
Get(v) == IF v.t = "absent" THEN PyNone ELSE v

\* bool(v)
Truthy(v) ==
    CASE v.t = "str" -> v.s # <<>>
      [] v.t = "int" -> v.n # 0
      [] v.t = "list" -> v.l # <<>>
      [] v.t = "dict" -> v.d # <<>>
      [] OTHER -> FALSE

\* a if a is not None else b: the first operand that is there, empty or not.
OrPresent(a, b) == IF a.t # "none" THEN a ELSE b

\* a or b
Or(a, b) == IF Truthy(a) THEN a ELSE b

\* _fix_mojibake(val): a value that is not a string passes through.
FixMojibake(val) == IF val.t = "str" THEN PyStr(FixMojibakeStr(val.s)) ELSE val

\* The keys kept in extras, and the values found under them.
Keep == {"id", "topic", "model", "category", "difficulty"}
NestedKeys == Keep \cup {"junk"}
NoExtras == [k \in Keep |-> "absent"]

\* A raw question record.  top holds the record's own allow-listed keys,
\* extras its nested "extras" value: t is "absent", "dict" or "other".
RawRecord(isDict, text, stem, question, choices, answer, answerLetter, options, correctAnswer, explanation, explanations, rationale, top, extras) ==
    [isDict |-> isDict, text |-> text, stem |-> stem, question |-> question,
     choices |-> choices, answer |-> answer, answer_letter |-> answerLetter,
     options |-> options, correct_answer |-> correctAnswer,
     explanation |-> explanation, explanations |-> explanations,
     rationale |-> rationale, top |-> top, extras |-> extras]

NoNested == [t |-> "absent", m |-> [k \in NestedKeys |-> "absent"]]
NestedDict(m) == [t |-> "dict", m |-> m]
NestedOther == [t |-> "other", m |-> [k \in NestedKeys |-> "absent"]]

\* What norm_one returns, or that it raised.
Question(text, choices, answer, explanation, extras) ==
    [raised |-> FALSE, text |-> text, choices |-> choices, answer |-> answer,
     explanation |-> explanation, extras |-> extras]

NormRaised ==
    [raised |-> TRUE, text |-> PyNone, choices |-> <<>>, answer |-> 0,
     explanation |-> PyNone, extras |-> NoExtras]

-----------------------------------------------------------------------------
(* The question normaliser.                                                *)

Letters ==
    <<"A", "B", "C", "D", "E", "F", "G", "H", "I", "J", "K", "L", "M",
      "N", "O", "P", "Q", "R", "S", "T", "U", "V", "W", "X", "Y", "Z">>

\* c in opts, opts[k]
HasKey(d, c) == \E i \in DOMAIN d : d[i][1] = <<c>>
Lookup(d, c) == d[CHOOSE i \in DOMAIN d : d[i][1] = <<c>>][2]

\* letters.index(x) + 1
IndexOf(seq, x) == CHOOSE i \in DOMAIN seq : seq[i] = x /\ \A j \in 1 .. i - 1 : seq[j] # x

\* The keys of opts in iteration order: the ordering the code does not use.
LettersInsertionOrder(d) ==
    LET keys == SelectSeq(d, LAMBDA pr : Len(pr[1]) = 1 /\ \E i \in DOMAIN Letters : Letters[i] = pr[1][1])
    IN [i \in DOMAIN keys |-> keys[i][1][1]]

\* [c for c in "ABCDEFGHIJKLMNOPQRSTUVWXYZ" if c in opts]
LettersPresent(d) == SelectSeq(Letters, LAMBDA c : HasKey(d, c))

\* (v or "").strip().upper().rstrip("."): raises on a truthy non-string.
LetterRaises(v) == Truthy(v) /\ v.t # "str"
LetterOf(v) == RStrip(Upper(Strip(IF Truthy(v) THEN v.s ELSE <<>>)), ".")

\* list(x) of the last branch: raises TypeError on an integer.
ListRaises(v) == v.t = "int"
ListOf(v) ==
    CASE v.t = "list" -> v.l
      [] v.t = "str" -> [i \in DOMAIN v.s |-> <<v.s[i]>>]
      [] v.t = "dict" -> [i \in DOMAIN v.d |-> v.d[i][1]]
      [] OTHER -> <<>>

\* int(x) of the last branch.
IntRaises(v) == v.t \in {"list", "dict", "none"} \/ (v.t = "str" /\ ~IsDecimal(Strip(v.s)))
IntOf(v) == IF v.t = "int" THEN v.n ELSE DecimalValue(Strip(v.s))

FixAll(l) == [i \in DOMAIN l |-> FixMojibakeStr(l[i])]

\* The extras of norm_one: the record's own keys win over the nested ones.
ExtrasOf(q) ==
    [k \in Keep |->
        IF q.top[k] # "absent" THEN q.top[k]
        ELSE IF q.extras.t = "dict" THEN q.extras.m[k] ELSE "absent"]

\* norm_one(q)
NormOne(q) ==
    IF ~q.isDict THEN NormRaised
    ELSE
    LET text == FixMojibake(Or(Or(Or(Get(q.text), Get(q.stem)), Get(q.question)), PyStr(<<>>)))
        explanation ==
            FixMojibake(Or(Or(Get(q.explanation), Get(q.explanations)), Get(q.rationale)))
        extras == ExtrasOf(q)
    IN IF q.choices.t = "list" /\ q.choices.l # <<>>
       THEN IF q.answer.t = "int"
            THEN Question(text, FixAll(q.choices.l), q.answer.n, explanation, extras)
            ELSE IF LetterRaises(Get(q.answer_letter)) THEN NormRaised
            ELSE Question(text, FixAll(q.choices.l), 0, explanation, extras)
       ELSE IF q.options.t = "dict" /\ q.options.d # <<>>
       THEN LET opts == q.options.d
                letters == LettersPresent(opts)
                choices == [i \in DOMAIN letters |-> FixMojibakeStr(Lookup(opts, letters[i]))]
                src == Or(Or(Get(q.correct_answer), Get(q.answer_letter)), PyStr(<<>>))
                ansLetter == LetterOf(src)
            IN IF LetterRaises(src) THEN NormRaised
               ELSE IF Len(ansLetter) = 1 /\ \E i \in DOMAIN letters : letters[i] = ansLetter[1]
               THEN Question(text, choices, IndexOf(letters, ansLetter[1]) - 1, explanation, extras)
               ELSE IF q.answer.t = "int"
               THEN Question(text, choices, q.answer.n, explanation, extras)
               ELSE Question(text, choices, 0, explanation, extras)
       ELSE LET cs == Or(Get(q.choices), PyList(<<>>))
                ans == Or(Get(q.answer), PyInt(0))
            IN IF ListRaises(cs) \/ IntRaises(ans) THEN NormRaised
               ELSE Question(text, FixAll(ListOf(cs)), IntOf(ans), explanation, extras)

\* The input of _normalize_questions: a list of records (t = "list"), a
\* mapping (t = "dict") or any other JSON value (t = "other").  keys says what
\* a mapping holds under each wrapper key: nothing ("absent"), a value that
\* is no list ("nonlist"), the empty list ("empty") or the records l ("recs").
WrapKeys == <<"questions", "items", "data">>
RawInput(t, l, keys) == [t |-> t, l |-> l, keys |-> keys]
ListInput(l) == RawInput("list", l, [k \in 1 .. 3 |-> "absent"])

\* isinstance(raw, list), or a mapping with a list under a wrapper key.
Recognised(raw) ==
    \/ raw.t = "list"
    \/ raw.t = "dict" /\ \E k \in 1 .. 3 : raw.keys[k] \in {"empty", "recs"}

\* The records _normalize_questions maps norm_one over: the list itself, or
\* the list under the first wrapper key that holds one.
RecordsOf(raw) ==
    IF raw.t = "list" THEN raw.l
    ELSE LET k == CHOOSE i \in 1 .. 3 :
                      /\ raw.keys[i] \in {"empty", "recs"}
                      /\ \A j \in 1 .. i - 1 : raw.keys[j] \notin {"empty", "recs"}
         IN IF raw.keys[k] = "recs" THEN raw.l ELSE <<>>

NormResult(raised, error, out) == [raised |-> raised, error |-> error, out |-> out]
NoResult == NormResult(FALSE, "pending", <<>>)

\* _normalize_questions(raw): a record on which norm_one raises ends the
\* whole call with that exception.
NormalizeQuestions(raw) ==
    IF ~Recognised(raw) THEN NormResult(TRUE, "ValueError", <<>>)
    ELSE LET rs == RecordsOf(raw)
             outs == [i \in DOMAIN rs |-> NormOne(rs[i])]
         IN IF \E i \in DOMAIN outs : outs[i].raised
            THEN NormResult(TRUE, "record", <<>>)
            ELSE NormResult(FALSE, "none", outs)

\* A returned Question read as a raw record again.
AsRaw(question) ==
    RawRecord(TRUE, question.text, PyAbsent, PyAbsent, PyList(question.choices),
              PyInt(question.answer), PyAbsent, PyAbsent, PyAbsent,
              question.explanation, PyAbsent, PyAbsent, NoExtras,
              NestedDict([k \in NestedKeys |->
                             IF k \in Keep THEN question.extras[k] ELSE "absent"]))

-----------------------------------------------------------------------------
(* The scorer.                                                             *)

\* score = sum(1 for a in answers if a)
RECURSIVE CountTrue(_)
CountTrue(answers) ==
    IF answers = <<>> THEN 0
    ELSE (IF Head(answers) THEN 1 ELSE 0) + CountTrue(Tail(answers))

\* A streak loop that does not stop at the first wrong answer.
RECURSIVE StreakNoBreak(_)
StreakNoBreak(answers) ==
    IF answers = <<>> THEN 0
    ELSE (IF answers[Len(answers)] THEN 1 ELSE 0)
             + StreakNoBreak(SubSeq(answers, 1, Len(answers) - 1))

\* for a in reversed(answers): count until the first wrong answer
RECURSIVE TrailingStreak(_)
TrailingStreak(answers) ==
    IF answers = <<>> THEN 0
    ELSE IF answers[Len(answers)]
         THEN 1 + TrailingStreak(SubSeq(answers, 1, Len(answers) - 1))
         ELSE 0

Max(a, b) == IF a >= b THEN a ELSE b

\* A loop that keeps the run in progress, not the longest one seen.
RECURSIVE LongestLastRun(_, _, _, _)
LongestLastRun(answers, i, cur, longest) ==
    IF i > Len(answers) THEN cur
    ELSE IF answers[i]
         THEN LongestLastRun(answers, i + 1, cur + 1, longest)
         ELSE LongestLastRun(answers, i + 1, 0, longest)

\* for a in answers: the loop over cur and longest, from position i on
RECURSIVE LongestFrom(_, _, _, _)
LongestFrom(answers, i, cur, longest) ==
    IF i > Len(answers) THEN longest
    ELSE IF answers[i]
         THEN LongestFrom(answers, i + 1, cur + 1, Max(longest, cur + 1))
         ELSE LongestFrom(answers, i + 1, 0, longest)

\* _score_and_streak(answers)
ScoreAndStreak(answers) ==
    [score |-> CountTrue(answers),
     streak |-> TrailingStreak(answers),
     longest |-> LongestFrom(answers, 1, 0, 0)]

-----------------------------------------------------------------------------
(* The play view: the file tree it looks into, path resolution, the guard. *)
(* A path is the sequence of its components from the root; a requested     *)
(* name is a sequence of components, absolute or relative to the data      *)
(* directory.                                                              *)
(*   /srv/data                 the data directory                          *)
(*   /srv/data/ok.json         a quiz of two questions                     *)
(*   /srv/data/A.JSON          a quiz of one question                      *)
(*   /srv/data/notes.txt       a file that is no quiz                      *)
(*   /srv/data/sub/deep.json   a file that holds no JSON                   *)
(*   /srv/data/dir.json        a directory                                 *)
(*   /srv/data/link.json       a symbolic link to /srv/secrets.json        *)
(*   /srv/data/out             a symbolic link to /srv                     *)
(*   /srv/secrets.json         a file outside the data directory           *)
(* "long.json" is a name longer than the file system allows, "nul.json" a  *)
(* name with an embedded NUL character; neither exists.                    *)

Names ==
    {"..", "srv", "data", "ok.json", "A.JSON", "notes.txt", "sub", "deep.json",
     "dir.json", "link.json", "out", "secrets.json", "long.json", "nul.json"}

\* DATA_DIR.resolve()
Base == <<"srv", "data">>

Kind(p) ==
    IF p \in {<<>>, <<"srv">>, <<"srv", "data">>, <<"srv", "data", "sub">>,
              <<"srv", "data", "dir.json">>} THEN "dir"
    ELSE IF p \in {<<"srv", "data", "ok.json">>, <<"srv", "data", "A.JSON">>,
                   <<"srv", "data", "notes.txt">>, <<"srv", "data", "sub", "deep.json">>,
                   <<"srv", "secrets.json">>} THEN "file"
    ELSE IF p \in {<<"srv", "data", "link.json">>, <<"srv", "data", "out">>} THEN "link"
    ELSE "missing"

LinkTarget(p) ==
    IF p = <<"srv", "data", "link.json">> THEN <<"srv", "secrets.json">> ELSE <<"srv">>

\* What json.load finds in a file, and the questions of a quiz with the
\* index of each one's right answer.
Content(p) ==
    IF p \in {<<"srv", "data", "ok.json">>, <<"srv", "data", "A.JSON">>} THEN "quiz"
    ELSE "nojson"

QuizOf(p) == IF p = <<"srv", "data", "ok.json">> THEN <<"q1", "q2">> ELSE <<"qSurrogate">>
AnswerOf(obj) == IF obj = "q2" THEN 1 ELSE 0

TooLong(name) == name = "long.json"
HasNul(name) == name = "nul.json"

\* name.lower().endswith(".json")
LowerEndsWithJson(name) ==
    name \in {"ok.json", "A.JSON", "deep.json", "dir.json", "link.json", "secrets.json",
              "long.json", "nul.json"}

\* Path.resolve(): ".." drops the last component (the root is its own
\* parent), a symbolic link is replaced by its target, a component that
\* cannot be examined is kept as it is written.
RECURSIVE RealPath(_, _)
RealPath(path, segs) ==
    IF segs = <<>> THEN path
    ELSE LET name == Head(segs)
             newpath == Append(path, name)
         IN IF name = ".."
            THEN RealPath(IF path = <<>> THEN <<>> ELSE SubSeq(path, 1, Len(path) - 1),
                          Tail(segs))
            ELSE IF Kind(newpath) = "link" THEN RealPath(LinkTarget(newpath), Tail(segs))
            ELSE RealPath(newpath, Tail(segs))

\* resolve() raises ValueError on a component with an embedded NUL.
ResolveRaises(segs) == \E i \in DOMAIN segs : HasNul(segs[i])

\* (base / fname).resolve()
Target(abs, segs) == RealPath(IF abs THEN <<>> ELSE Base, segs)

\* str(target).lower().endswith(".json")
EndsWithJson(p) == p # <<>> /\ LowerEndsWithJson(p[Len(p)])

\* target.exists() raises the OSError of stat for a name that is too long:
\* stat meets the name when the path before it leads to a directory, and
\* reports a missing or non-directory parent first (errors exists() ignores).
StatRaises(p) ==
    \E i \in DOMAIN p : TooLong(p[i]) /\ Kind(SubSeq(p, 1, i - 1)) = "dir"

\* target.is_relative_to(base)
IsRelativeTo(p, base) == Len(p) >= Len(base) /\ SubSeq(p, 1, Len(base)) = base

\* The guard of play, its conditions in the order they are evaluated.
PlayGuard(abs, segs) ==
    IF ResolveRaises(segs) THEN "exception"
    ELSE LET target == Target(abs, segs)
         IN IF ~EndsWithJson(target) THEN "redirect"
            ELSE IF StatRaises(target) THEN "exception"
            ELSE IF Kind(target) = "missing" THEN "redirect"
            ELSE IF Kind(target) # "file" THEN "redirect"
            ELSE IF ~IsRelativeTo(target, Base) THEN "redirect"
            ELSE "open"

\* random.shuffle(questions)
Shuffles(l) ==
    {[i \in DOMAIN l |-> l[p[i]]] :
        p \in {f \in [DOMAIN l -> DOMAIN l] : \A i, j \in DOMAIN l : f[i] = f[j] => i = j}}

\* The form field q{i}: absent or not a number, or an index.
Selections == {NoVal, IntVal(0), IntVal(1)}

\* is_correct of play for each question in the order shown
Correctness(order, checked) ==
    [i \in DOMAIN order |-> checked[i].t = "int" /\ checked[i].n = AnswerOf(order[i])]

\* The questions play hands to _append_mistake: answered, and wrong.
Mistaken(order, checked) ==
    LET wrong == {i \in DOMAIN order :
                     checked[i].t = "int" /\ ~Correctness(order, checked)[i]}
        pick[i \in 0 .. Len(order)] ==
            IF i = 0 THEN <<>>
            ELSE IF i \in wrong THEN Append(pick[i - 1], order[i]) ELSE pick[i - 1]
    IN pick[Len(order)]

-----------------------------------------------------------------------------
(* Idle values of the other parts.                                         *)

NormIdle == [phase |-> "idle", raw |-> ListInput(<<>>), result |-> NoResult, again |-> NoResult]
NoScore == [score |-> 0, streak |-> 0, longest |-> 0]
ScoreIdle == [phase |-> "idle", answers |-> <<>>, result |-> NoScore]
PlayIdle ==
    [phase |-> "idle", abs |-> FALSE, segs |-> <<>>, method |-> "GET", outcome |-> "none",
     resolved |-> FALSE, target |-> <<>>, read |-> FALSE, order |-> <<>>, checked |-> <<>>,
     result |-> NoScore]

FixIdle == [phase |-> "idle", val |-> PyNone, once |-> PyNone, twice |-> PyNone]
BackfillIdle ==
    [phase |-> "idle", apply |-> FALSE, limit |-> -1, bank |-> <<>>, arr |-> <<>>, idx |-> 0,
     examined |-> 0, updated |-> 0, writes |-> <<>>]
\* The requests that run store operations at the same time.
Requests == {"r1", "r2"}

\* A request before it calls the store: its position, the operation and its
\* argument, what its fallback read and where the other requests were then,
\* the remote calls and fallbacks it has made, and what it returned.
ProcIdle ==
    [pc |-> "idle", op |-> "none", obj |-> "q1", items |-> <<>>,
     at |-> [r \in Requests |-> "idle"], remoteCalls |-> 0, fallbacks |-> 0,
     out |-> "none", ret |-> NoVal]
ProcsIdle == [r \in Requests |-> ProcIdle]
\* The submit endpoint before a request: which module serves it, the body,
\* what the body decoded to, the response, whether _append_mistake or the
\* view raised, and whether the store changed.
ApiIdle ==
    [phase |-> "idle", variant |-> "mcq", body |-> "empty", payload |-> "none",
     status |-> 0, ok |-> FALSE, appendRaised |-> FALSE, raised |-> FALSE,
     changed |-> FALSE]

\* The catalog view before a request: the entries under data/ other than
\* mistakes.json, and the page it rendered.
HomeIdle == [phase |-> "idle", tree |-> {}, groups |-> <<>>, mistakes_count |-> 0]
\* The count endpoint before a request: its answer, and the store the
\* count came from.
CountIdle ==
    [phase |-> "idle", status |-> 0, ok |-> FALSE, count |-> 0, source |-> "none",
     obtained |-> "none"]
\* The money rewriter before a call: the text, and the text after one and
\* after two applications.
SanIdle == [phase |-> "idle", text |-> <<>>, once |-> <<>>, twice |-> <<>>]
\* A quiz page before its GET: the order rendered, and what the POST drew,
\* read from the form, scored and recorded.
QuizIdle ==
    [phase |-> "idle", view |-> "play", shown |-> <<>>, order |-> <<>>, checked |-> <<>>,
     correctness |-> <<>>, result |-> NoScore, mistakes |-> <<>>]
\* The trainer's session before any request: no key is set; at is the order
\* and idx _current_question was last evaluated on.
NoEval == [evaluated |-> FALSE, order |-> <<>>, idx |-> 0]
SessIdle ==
    [phase |-> "idle", has |-> FALSE, streak |-> 0, correct |-> 0, answered |-> 0,
     order |-> <<>>, idx |-> 0, feedback |-> "absent", at |-> NoEval, request |-> "none",
     reqs |-> 0]

\* The views outside a specification's part have not been requested.
ViewsIdle ==
    /\ home = HomeIdle
    /\ cnt = CountIdle
    /\ san = SanIdle
    /\ quiz = QuizIdle
    /\ sess = SessIdle

StoreFrame == UNCHANGED <<norm, score, play, fix, bf, procs, api, viewVars>>

-----------------------------------------------------------------------------
(* Specification Spec: the mistake store.                                  *)

Init ==
    /\ env \in [url : EnvValues, token : EnvValues]
    /\ remote \in {<<>>, <<Junk>>}
    /\ file \in {FileMissing, FileBlank, FileList(<<>>), FileNonList, FileCorrupt}
    /\ file0 = file
    /\ appended = <<>>
    /\ ioFault = FALSE
    /\ last = NoLast
    /\ calls = 0
    /\ fix = FixIdle
    /\ bf = BackfillIdle
    /\ procs = ProcsIdle
    /\ ViewsIdle
    /\ api = ApiIdle
    /\ norm = NormIdle
    /\ score = ScoreIdle
    /\ play = PlayIdle

\* _append_mistake(obj)
AppendMistake(obj, net, io) ==
    LET payload == JsonDumps(obj)
        sent == RequestSent(env, Utf8Encodable(obj))
        applied == sent /\ ServerApplies(net)
        pushed == IF applied THEN <<payload>> \o remote ELSE remote
        res == UpstashCall(env, Utf8Encodable(obj), net, IntVal(Len(pushed)))
        fellBack == ~PushSucceeded(res)
    IN /\ calls < MaxOps
       /\ net \in NetFor(sent)
       /\ io \in IoFor(fellBack)
       /\ remote' = pushed
       /\ file' = IF fellBack THEN LocalAppend(file, obj, io) ELSE file
       /\ appended' = Append(appended, obj)
       /\ ioFault' = (ioFault \/ io = "oserror")
       /\ last' = Last("append", obj, net, io, res, sent, fellBack, <<>>, 0)
       /\ calls' = calls + 1
       /\ UNCHANGED <<env, file0>>
       /\ StoreFrame

\* _load_mistakes_list()
LoadMistakesList(net, io) ==
    LET sent == RequestSent(env, TRUE)
        res == UpstashCall(env, TRUE, net, ListVal(remote))
        fellBack == DecodeEntries(res) = <<>> /\ file.kind # "missing"
    IN /\ calls < MaxOps
       /\ net \in NetFor(sent)
       /\ io \in IoFor(fellBack)
       /\ ioFault' = (ioFault \/ io = "oserror")
       /\ last' = Last("list", "q1", net, io, res, sent, fellBack, ListItems(res, file, io), 0)
       /\ calls' = calls + 1
       /\ UNCHANGED <<env, remote, file, file0, appended>>
       /\ StoreFrame

\* _mistakes_count()
MistakesCount(net, io) ==
    LET sent == RequestSent(env, TRUE)
        res == UpstashCall(env, TRUE, net, IntVal(Len(remote)))
        fellBack == UpstashScalar(res).t # "int"
    IN /\ calls < MaxOps
       /\ net \in NetFor(sent)
       /\ io \in IoFor(fellBack /\ file.kind # "missing")
       /\ ioFault' = (ioFault \/ io = "oserror")
       /\ last' = Last("count", "q1", net, io, res, sent, fellBack, <<>>, CountValue(res, file, io))
       /\ calls' = calls + 1
       /\ UNCHANGED <<env, remote, file, file0, appended>>
       /\ StoreFrame

Next ==
    \/ \E obj \in Objs, net \in NetOutcomes, io \in IoOutcomes : AppendMistake(obj, net, io)
    \/ \E net \in NetOutcomes, io \in IoOutcomes : LoadMistakesList(net, io)
    \/ \E net \in NetOutcomes, io \in IoOutcomes : MistakesCount(net, io)

Spec == Init /\ [][Next]_vars

-----------------------------------------------------------------------------
(* Specification SpecNorm: _normalize_questions on one input, and again on *)
(* its own output.                                                         *)

MaxRecords == 2

\* Strings of the inputs.
Sx == <<"x">>
Sy == <<"y">>
Sz == <<"z">>
SMojibake == <<"â", "c82", "cAC", "x">>
SEuro == <<"€", "x">>

BaseRecord ==
    RawRecord(TRUE, PyAbsent, PyAbsent, PyAbsent, PyAbsent, PyAbsent, PyAbsent, PyAbsent,
              PyAbsent, PyAbsent, PyAbsent, PyAbsent, NoExtras, NoNested)

NotAMapping == [BaseRecord EXCEPT !.isDict = FALSE]

\* {"options": {"B": "two", "A": "one"}, "correct_answer": "B"}
OptionsBA == PyDict(<< <<(<<"B">>), Sy>>, <<(<<"A">>), Sx>> >>)
OptionsAB == PyDict(<< <<(<<"A">>), Sx>>, <<(<<"B">>), Sy>> >>)
OptionsCA == PyDict(<< <<(<<"C">>), Sz>>, <<(<<"A">>), SMojibake>> >>)
OptionsLower == PyDict(<< <<(<<"a">>), Sx>>, <<(<<"B">>), Sy>> >>)
OptionsWord == PyDict(<< <<(<<"B">>), Sy>>, <<(<<"A", "B">>), Sx>>, <<(<<"A">>), Sz>> >>)

ExampleOptions == [BaseRecord EXCEPT !.options = OptionsBA, !.correct_answer = PyStr(<<"B">>)]
ExampleChoices == [BaseRecord EXCEPT !.choices = PyList(<<Sx, Sy, Sz>>), !.answer = PyInt(2)]

StemRecords ==
    {[BaseRecord EXCEPT !.text = t, !.stem = st, !.question = u,
                        !.choices = PyList(<<Sx, Sy>>), !.answer = PyInt(1)] :
        t \in {PyAbsent, PyNone, PyStr(<<>>), PyStr(Sx), PyStr(SMojibake)},
        st \in {PyAbsent, PyStr(<<>>), PyStr(Sy)},
        u \in {PyAbsent, PyStr(Sz)}}

ChoicesRecords ==
    {[BaseRecord EXCEPT !.choices = c, !.answer = a, !.answer_letter = al, !.correct_answer = ca] :
        c \in {PyAbsent, PyList(<<>>), PyList(<<Sx, Sy, Sz>>), PyList(<<SMojibake, Sy>>),
               PyStr(<<"x", "y">>), PyInt(5)},
        a \in {PyAbsent, PyNone, PyInt(-1), PyInt(0), PyInt(2), PyInt(5),
               PyStr(<<"x">>), PyStr(<<" ", "1", "2">>)},
        al \in {PyAbsent, PyStr(<<"B">>), PyInt(2)},
        ca \in {PyAbsent, PyStr(<<"B">>)}}

OptionsRecords ==
    {[BaseRecord EXCEPT !.options = o, !.correct_answer = ca, !.answer_letter = al,
                        !.answer = a, !.choices = c] :
        o \in {PyDict(<<>>), OptionsBA, OptionsAB, OptionsCA, OptionsLower, OptionsWord},
        ca \in {PyAbsent, PyStr(<<"B">>), PyStr(<<"b", ".">>), PyStr(<<" ", "b", " ">>),
                PyStr(<<"B", " ", ".">>), PyStr(<<"C">>), PyStr(<<>>), PyInt(2)},
        al \in {PyAbsent, PyStr(<<"A">>), PyStr(<<"c">>)},
        a \in {PyAbsent, PyInt(1), PyInt(7), PyStr(<<"x">>)},
        c \in {PyAbsent, PyList(<<>>)}}

CanonicalRecords ==
    {[BaseRecord EXCEPT !.text = PyStr(t), !.choices = PyList(c), !.answer = PyInt(a),
                        !.explanation = e, !.extras = NestedDict(x)] :
        t \in {<<>>, Sx, SMojibake, SEuro, <<"â", "x">>},
        c \in {<<>>, <<Sx, Sy>>, <<SMojibake, Sx>>},
        a \in {-1, 0, 1, 5},
        e \in {PyNone, PyStr(<<>>), PyStr(Sx), PyStr(SMojibake)},
        x \in {[k \in NestedKeys |-> "absent"],
               [k \in NestedKeys |-> IF k = "topic" THEN "v1" ELSE "absent"],
               [k \in NestedKeys |-> IF k \in {"topic", "id"} THEN "v2" ELSE "absent"]}}

ExtrasRecords ==
    {[ExampleChoices EXCEPT !.top = tp, !.extras = x] :
        tp \in {NoExtras, [k \in Keep |-> IF k = "topic" THEN "v1" ELSE "absent"]},
        x \in {NoNested, NestedOther,
               NestedDict([k \in NestedKeys |-> IF k \in {"topic", "junk"} THEN "v2" ELSE "absent"])}}

ExplanationRecords ==
    {[ExampleChoices EXCEPT !.explanation = e, !.explanations = es, !.rationale = r] :
        e \in {PyAbsent, PyStr(<<>>), PyStr(Sx)},
        es \in {PyAbsent, PyStr(Sy)},
        r \in {PyAbsent, PyStr(<<>>), PyStr(Sz)}}

RawRecords ==
    StemRecords \cup ChoicesRecords \cup OptionsRecords \cup CanonicalRecords
        \cup ExtrasRecords \cup ExplanationRecords \cup {NotAMapping}

\* Records of the inputs that hold several.
SampleRecords ==
    {ExampleChoices, ExampleOptions, NotAMapping,
     [BaseRecord EXCEPT !.answer = PyStr(<<"x">>)],
     [ExampleOptions EXCEPT !.correct_answer = PyInt(2)],
     [BaseRecord EXCEPT !.text = PyStr(SMojibake), !.choices = PyList(<<Sx>>), !.answer = PyInt(0)]}

SampleLists == UNION {[1 .. n -> SampleRecords] : n \in 0 .. MaxRecords}

RawInputs ==
    {ListInput(<<q>>) : q \in RawRecords}
        \cup {ListInput(l) : l \in SampleLists}
        \cup {RawInput("dict", l, keys) :
                 l \in SampleLists, keys \in [1 .. 3 -> {"absent", "nonlist", "empty", "recs"}]}
        \cup {RawInput("other", <<>>, [k \in 1 .. 3 |-> "absent"])}

NormFrame == UNCHANGED <<storeVars, score, play, fix, bf, procs, api, viewVars>>

InitNorm ==
    /\ env = [url |-> "unset", token |-> "unset"]
    /\ remote = <<>>
    /\ file = FileMissing
    /\ file0 = FileMissing
    /\ appended = <<>>
    /\ ioFault = FALSE
    /\ last = NoLast
    /\ calls = 0
    /\ fix = FixIdle
    /\ bf = BackfillIdle
    /\ procs = ProcsIdle
    /\ ViewsIdle
    /\ api = ApiIdle
    /\ norm \in {[phase |-> "input", raw |-> raw, result |-> NoResult, again |-> NoResult] :
                    raw \in RawInputs}
    /\ score = ScoreIdle
    /\ play = PlayIdle

\* _normalize_questions(raw)
Normalize ==
    /\ norm.phase = "input"
    /\ norm' = [norm EXCEPT !.phase = "once", !.result = NormalizeQuestions(norm.raw)]
    /\ NormFrame

\* _normalize_questions applied to the Questions it returned.
NormalizeAgain ==
    /\ norm.phase = "once"
    /\ ~norm.result.raised
    /\ norm' = [norm EXCEPT
                   !.phase = "twice",
                   !.again = NormalizeQuestions(
                                 ListInput([i \in DOMAIN norm.result.out |->
                                               AsRaw(norm.result.out[i])]))]
    /\ NormFrame

NextNorm == Normalize \/ NormalizeAgain

SpecNorm == InitNorm /\ [][NextNorm]_vars

-----------------------------------------------------------------------------
(* Specification SpecClient: the callers' bare uses of _upstash_call       *)
(* (LPUSH of _append_mistake, LRANGE of api_mistakes_dump and of the       *)
(* backfill command, LLEN through _upstash_scalar, LSET of the backfill    *)
(* command).                                                               *)

Commands == {"lpush", "lrange", "llen", "lset"}

\* The list after the store has applied a command (Redis LPUSH / LSET).
StoreApply(command, payload, idx, r) ==
    CASE command = "lpush" -> <<payload>> \o r
      [] command = "lset" -> [r EXCEPT ![idx + 1] = payload]
      [] OTHER -> r

\* The value the store answers with, r being the list after the command.
StoreAnswer(command, r) ==
    CASE command = "lpush" -> IntVal(Len(r))
      [] command = "llen" -> IntVal(Len(r))
      [] command = "lrange" -> ListVal(r)
      [] OTHER -> StrVal

InitClient == Init /\ file = FileMissing

ClientCall(command, obj, idx, net) ==
    LET payload == JsonDumps(obj)
        argsOk == command \in {"lrange", "llen"} \/ Utf8Encodable(obj)
        sent == RequestSent(env, argsOk)
        applied == sent /\ ServerApplies(net)
        r == IF applied THEN StoreApply(command, payload, idx, remote) ELSE remote
        res == UpstashCall(env, argsOk, net, StoreAnswer(command, r))
    IN /\ calls < MaxOps
       /\ net \in NetFor(sent)
       /\ (command = "lset" /\ idx >= Len(remote)) => ~ServerApplies(net)
       /\ remote' = r
       /\ last' = Last(command, obj, net, "ok", res, sent, FALSE, <<>>, 0)
       /\ calls' = calls + 1
       /\ UNCHANGED <<env, file, file0, appended, ioFault>>
       /\ StoreFrame

NextClient ==
    \E command \in Commands, obj \in Objs, idx \in 0 .. MaxOps - 1, net \in NetOutcomes :
        ClientCall(command, obj, idx, net)

SpecClient == InitClient /\ [][NextClient]_vars

-----------------------------------------------------------------------------
(* Specification SpecScore: _score_and_streak on one sequence of answers.  *)

MaxAnswers == 6

AnswerLists == UNION {[1 .. n -> BOOLEAN] : n \in 0 .. MaxAnswers}

ScoreFrame == UNCHANGED <<storeVars, norm, play, fix, bf, procs, api, viewVars>>

InitScore ==
    /\ env = [url |-> "unset", token |-> "unset"]
    /\ remote = <<>>
    /\ file = FileMissing
    /\ file0 = FileMissing
    /\ appended = <<>>
    /\ ioFault = FALSE
    /\ last = NoLast
    /\ calls = 0
    /\ fix = FixIdle
    /\ bf = BackfillIdle
    /\ procs = ProcsIdle
    /\ ViewsIdle
    /\ api = ApiIdle
    /\ norm = NormIdle
    /\ score \in {[phase |-> "input", answers |-> a, result |-> NoScore] : a \in AnswerLists}
    /\ play = PlayIdle

Score ==
    /\ score.phase = "input"
    /\ score' = [score EXCEPT !.phase = "done", !.result = ScoreAndStreak(score.answers)]
    /\ ScoreFrame

NextScore == Score

SpecScore == InitScore /\ [][NextScore]_vars

-----------------------------------------------------------------------------
(* Specification SpecPlay: one request to the play view, the remote client *)
(* unconfigured.                                                           *)

MaxSegs == 3

FileNames == UNION {[1 .. n -> Names] : n \in 1 .. MaxSegs}

\* One _append_mistake(q) of play.
AppendOne(f, obj, io) ==
    IF PushSucceeded(UpstashCall(env, Utf8Encodable(obj), "unreachable", NoVal))
    THEN f
    ELSE LocalAppend(f, obj, io)

RECURSIVE AppendAll(_, _, _)
AppendAll(f, objs, io) ==
    IF objs = <<>> THEN f ELSE AppendAll(AppendOne(f, Head(objs), io), Tail(objs), io)

InitPlay ==
    /\ env = [url |-> "unset", token |-> "unset"]
    /\ remote = <<>>
    /\ file = FileMissing
    /\ file0 = FileMissing
    /\ appended = <<>>
    /\ ioFault = FALSE
    /\ last = NoLast
    /\ calls = 0
    /\ fix = FixIdle
    /\ bf = BackfillIdle
    /\ procs = ProcsIdle
    /\ ViewsIdle
    /\ api = ApiIdle
    /\ norm = NormIdle
    /\ score = ScoreIdle
    /\ play \in {[PlayIdle EXCEPT !.phase = "request", !.abs = a, !.segs = f, !.method = m] :
                    a \in BOOLEAN, f \in FileNames, m \in {"GET", "POST"}}

\* play(request, fname) that does not reach the quiz: the guard redirects or
\* raises, or json.load raises on what the file holds.
PlayStopped ==
    LET guard == PlayGuard(play.abs, play.segs)
        target == Target(play.abs, play.segs)
    IN /\ play.phase = "request"
       /\ guard # "open" \/ Content(target) # "quiz"
       /\ play' = [play EXCEPT !.phase = "done",
                               !.resolved = ~ResolveRaises(play.segs),
                               !.target = IF ResolveRaises(play.segs) THEN <<>> ELSE target,
                               !.read = (guard = "open"),
                               !.outcome = IF guard = "open" THEN "exception" ELSE guard]
       /\ UNCHANGED <<storeVars, norm, score, fix, bf, procs, api, viewVars>>

\* play(request, fname) on a quiz: the questions are shuffled and, on POST,
\* scored in that order, each wrong answer handed to _append_mistake.
PlayQuiz(order, checked, io) ==
    LET target == Target(play.abs, play.segs)
        post == play.method = "POST"
        mistakes == IF post THEN Mistaken(order, checked) ELSE <<>>
    IN /\ play.phase = "request"
       /\ PlayGuard(play.abs, play.segs) = "open"
       /\ Content(target) = "quiz"
       /\ order \in Shuffles(QuizOf(target))
       /\ checked \in [DOMAIN order -> Selections]
       /\ ~post => checked = [i \in DOMAIN order |-> NoVal]
       /\ io \in IoFor(mistakes # <<>>)
       /\ file' = AppendAll(file, mistakes, io)
       /\ appended' = appended \o mistakes
       /\ ioFault' = (ioFault \/ io = "oserror")
       /\ play' = [play EXCEPT !.phase = "done", !.resolved = TRUE, !.target = target,
                               !.read = TRUE, !.outcome = "render", !.order = order,
                               !.checked = IF post THEN checked ELSE <<>>,
                               !.result = IF post
                                          THEN ScoreAndStreak(Correctness(order, checked))
                                          ELSE NoScore]
       /\ UNCHANGED <<env, remote, file0, last, calls, norm, score, fix, bf, procs, api, viewVars>>

NextPlay ==
    \/ PlayStopped
    \/ \E order \in UNION {Shuffles(QuizOf(p)) : p \in {<<"srv", "data", "ok.json">>,
                                                        <<"srv", "data", "A.JSON">>}},
          io \in IoOutcomes :
          \E checked \in [DOMAIN order -> Selections] : PlayQuiz(order, checked, io)

SpecPlay == InitPlay /\ [][NextPlay]_vars

-----------------------------------------------------------------------------
(* Specification SpecFix: _fix_mojibake on one value, and again on its own *)
(* result.                                                                 *)

MaxChars == 4

FixChars == {"x", "â", "c82", "cAC", "€", "fffd", "wide"}

FixInputs ==
    {PyStr(str) : str \in UNION {[1 .. n -> FixChars] : n \in 0 .. MaxChars}}
        \cup {PyNone, PyInt(1), PyList(<<SMojibake>>)}

InitFix ==
    /\ env = [url |-> "unset", token |-> "unset"]
    /\ remote = <<>>
    /\ file = FileMissing
    /\ file0 = FileMissing
    /\ appended = <<>>
    /\ ioFault = FALSE
    /\ last = NoLast
    /\ calls = 0
    /\ norm = NormIdle
    /\ score = ScoreIdle
    /\ play = PlayIdle
    /\ fix \in {[FixIdle EXCEPT !.phase = "input", !.val = v] : v \in FixInputs}
    /\ bf = BackfillIdle
    /\ procs = ProcsIdle
    /\ ViewsIdle
    /\ api = ApiIdle

Fix ==
    /\ fix.phase = "input"
    /\ fix' = [fix EXCEPT !.phase = "done",
                          !.once = FixMojibake(fix.val),
                          !.twice = FixMojibake(FixMojibake(fix.val))]
    /\ UNCHANGED <<storeVars, norm, score, play, bf, procs, api, viewVars>>

NextFix == Fix

SpecFix == InitFix /\ [][NextFix]_vars

-----------------------------------------------------------------------------
(* The backfill command.  A mistake record is known by a name; its fields  *)
(* are the strings the command reads: text, extras.topic, the choices and  *)
(* the answer.                                                             *)
(*   bare           no text, no topic                                      *)
(*   blank          a text of one space, a topic                           *)
(*   notopic        a text, no topic                                       *)
(*   full           a text and a topic                                     *)
(*   orphan         no text, no topic, choices no local question has       *)
(*   the others     the records above after a fill                         *)

MistakeFields(name) ==
    CASE name = "bare" ->
             [text |-> <<>>, topic |-> <<>>, choices |-> <<<<" ", "a">>>>, answer |-> 0]
      [] name = "blank" ->
             [text |-> <<" ">>, topic |-> <<"A">>, choices |-> <<<<"a">>>>, answer |-> 0]
      [] name = "notopic" ->
             [text |-> Sx, topic |-> <<>>, choices |-> <<<<"a">>>>, answer |-> 0]
      [] name = "full" ->
             [text |-> Sx, topic |-> <<"A">>, choices |-> <<<<"a">>>>, answer |-> 0]
      [] name = "orphan" ->
             [text |-> <<>>, topic |-> <<>>, choices |-> <<<<"c">>>>, answer |-> 0]
      [] name = "bareFilled" ->
             [text |-> Sy, topic |-> <<"B">>, choices |-> <<<<" ", "a">>>>, answer |-> 0]
      [] name = "bareTopic" ->
             [text |-> <<>>, topic |-> <<"B">>, choices |-> <<<<" ", "a">>>>, answer |-> 0]
      [] name = "blankFilled" ->
             [text |-> Sy, topic |-> <<"A">>, choices |-> <<<<"a">>>>, answer |-> 0]
      [] name = "notopicFilled" ->
             [text |-> Sx, topic |-> <<"B">>, choices |-> <<<<"a">>>>, answer |-> 0]

StoredMistakes == {"bare", "blank", "notopic", "full", "orphan"}
MistakeNames ==
    StoredMistakes \cup {"bareFilled", "bareTopic", "blankFilled", "notopicFilled"}

\* json.dumps(item): the name of the record with these fields.
MistakeNamed(fields) ==
    IF \E name \in MistakeNames : MistakeFields(name) = fields
    THEN CHOOSE name \in MistakeNames : MistakeFields(name) = fields
    ELSE "unnamed"

\* The local question bank, in the order _iter_all_questions yields it:
\* two questions of one signature, the first with or without a text.
BankQuestion(text, topic) ==
    [text |-> text, topic |-> topic, choices |-> <<<<"a">>>>, answer |-> 0]

Banks ==
    {<<BankQuestion(Sy, <<"B">>), BankQuestion(Sz, <<"C">>)>>,
     <<BankQuestion(<<>>, <<"B">>), BankQuestion(Sz, <<"C">>)>>}

\* _signature(choices, answer)
Signature(choices, answer) == <<[i \in DOMAIN choices |-> Strip(choices[i])], answer>>

\* lookup.get(sig) or []: the questions of that signature, in bank order
MatchList(bank, sig) ==
    LET hit(q) == Signature(q.choices, q.answer) = sig
    IN SelectSeq(bank, hit)

\* A match taken from the end of the list.
LastMatch(matches) == matches[Len(matches)]

\* match_list[0]
FirstMatch(matches) == matches[1]

\* The two fills of one loop iteration on a decoded item.
FillItem(item, bank) ==
    LET matches == MatchList(bank, Signature(item.choices, item.answer))
        found == matches # <<>>
        fillText == Strip(item.text) = <<>> /\ found /\ FirstMatch(matches).text # <<>>
        fillTopic == Strip(item.topic) = <<>> /\ found /\ FirstMatch(matches).topic # <<>>
    IN [item |-> [item EXCEPT !.text = IF fillText THEN FirstMatch(matches).text ELSE @,
                              !.topic = IF fillTopic THEN FirstMatch(matches).topic ELSE @],
        changed |-> fillText \/ fillTopic]

\* A write-back that does not look at --apply.
WritesBackAlways(changed, doApply) == changed

\* if changed and do_apply
WritesBack(changed, doApply) == changed /\ doApply

\* json.loads(raw) succeeds
Decodes(entry) == entry[1] = "json"

-----------------------------------------------------------------------------
(* Specification SpecBackfill: one run of the backfill command, step by    *)
(* step at its remote calls, while requests append mistakes.               *)

MaxList == 2

RemoteLists ==
    UNION {[1 .. n -> {JsonDumps(name) : name \in StoredMistakes} \cup {Junk}] :
              n \in 0 .. MaxList}

InitBackfill ==
    /\ env \in {[url |-> "set", token |-> "set"], [url |-> "set", token |-> "unset"]}
    /\ remote \in RemoteLists
    /\ file = FileMissing
    /\ file0 = FileMissing
    /\ appended = <<>>
    /\ ioFault = FALSE
    /\ last = NoLast
    /\ calls = 0
    /\ norm = NormIdle
    /\ score = ScoreIdle
    /\ play = PlayIdle
    /\ fix = FixIdle
    /\ bf \in {[BackfillIdle EXCEPT !.phase = "start", !.apply = a, !.limit = l, !.bank = b] :
                  a \in BOOLEAN, l \in {-1, 1}, b \in Banks}
    /\ procs = ProcsIdle
    /\ ViewsIdle
    /\ api = ApiIdle

BackfillFrame == UNCHANGED <<env, file, file0, appended, ioFault, last, calls, norm, score,
                             play, fix, procs, api, viewVars>>

\* handle: the configuration test, the lookup and the LRANGE.
BackfillStart(net) ==
    LET res == UpstashCall(env, TRUE, net, ListVal(remote))
        fetched == res.kind = "dict" /\ res.hasResult /\ res.result.t = "list"
    IN /\ bf.phase = "start"
       /\ net \in NetFor(RequestSent(env, TRUE))
       /\ bf' = IF fetched
                THEN [bf EXCEPT !.phase = "loop", !.arr = res.result.l]
                ELSE [bf EXCEPT !.phase = "failed"]
       /\ UNCHANGED remote
       /\ BackfillFrame

\* One iteration of the loop over arr, with its LSET if it makes one.
BackfillStep(net) ==
    LET raw == bf.arr[bf.idx + 1]
        filled == FillItem(MistakeFields(raw[2]), bf.bank)
        writes == Decodes(raw) /\ WritesBack(filled.changed, bf.apply)
        payload == JsonDumps(MistakeNamed(filled.item))
        applied == writes /\ ServerApplies(net)
    IN /\ bf.phase = "loop"
       /\ bf.idx < Len(bf.arr)
       /\ ~(bf.limit >= 0 /\ bf.examined >= bf.limit)
       /\ net \in NetFor(writes)
       /\ remote' = IF applied THEN StoreApply("lset", payload, bf.idx, remote) ELSE remote
       /\ bf' = [bf EXCEPT !.idx = @ + 1,
                           !.examined = @ + 1,
                           !.updated = IF writes THEN @ + 1 ELSE @,
                           !.writes = IF writes
                                      THEN Append(@, [idx |-> bf.idx, source |-> raw,
                                                      item |-> filled.item,
                                                      payload |-> payload, applied |-> applied,
                                                      replaced |-> remote[bf.idx + 1]])
                                      ELSE @]
       /\ BackfillFrame

\* The end of the loop and the report.
BackfillReport ==
    /\ bf.phase = "loop"
    /\ bf.idx >= Len(bf.arr) \/ (bf.limit >= 0 /\ bf.examined >= bf.limit)
    /\ bf' = [bf EXCEPT !.phase = "done"]
    /\ UNCHANGED remote
    /\ BackfillFrame

\* A request of the quiz records a mistake while the command runs; one
\* such request is followed.
RequestAppend(obj, net, io) ==
    /\ appended = <<>>
    /\ AppendMistake(obj, net, io)

NextBackfill ==
    \/ \E net \in NetOutcomes : BackfillStart(net)
    \/ \E net \in NetOutcomes : BackfillStep(net)
    \/ BackfillReport
    \/ \E obj \in {"full", "orphan"}, net \in NetOutcomes, io \in IoOutcomes :
           RequestAppend(obj, net, io)

SpecBackfill == InitBackfill /\ [][NextBackfill]_vars

-----------------------------------------------------------------------------
(* Specification SpecSteps: two requests running Append, List or Count     *)
(* step by step.  The steps of one call are the remote call, the read of   *)
(* the local file, the opening of the file for writing (which empties it)  *)
(* and the write of the new content.                                       *)

StoreOps == {"append", "list", "count"}

\* The test each operation makes on the client's answer before it falls back.
Answered(op, res) ==
    CASE op = "append" -> PushSucceeded(res)
      [] op = "list" -> DecodeEntries(res) # <<>>
      [] op = "count" -> UpstashScalar(res).t = "int"

\* A call that goes back to the remote store when the answer is no success.
AfterCallRetry(op, res) == IF Answered(op, res) THEN "done" ELSE "call"

\* Where a call goes after the client's answer: it returns, or it takes the
\* local fallback.
AfterCall(op, res) == IF Answered(op, res) THEN "done" ELSE "fallback"

\* A fallback that starts from an empty list whatever the file holds.
ReadNothing(f) == <<>>

\* items of the fallback of _append_mistake after the read of the file.
ReadItems(f) == IF f.kind = "list" THEN f.items ELSE <<>>

\* What the remote store answers to the command of each operation.
StoreValue(op, pushed) ==
    CASE op = "append" -> IntVal(Len(pushed))
      [] op = "list" -> ListVal(remote)
      [] op = "count" -> IntVal(Len(remote))

\* What List and Count return from the client's answer alone.
RemoteReturn(op, res) ==
    CASE op = "list" -> ListVal(DecodeEntries(res))
      [] op = "count" -> UpstashScalar(res)
      [] OTHER -> NoVal

StepsFrame ==
    UNCHANGED <<env, file0, appended, ioFault, last, calls, norm, score, play, fix, bf, api, viewVars>>

InitSteps ==
    /\ env \in {[url |-> "set", token |-> "set"], [url |-> "set", token |-> "unset"]}
    /\ remote \in {<<>>, <<JsonDumps("q1")>>}
    /\ file \in {FileMissing, FileBlank, FileList(<<>>), FileList(<<"q1">>), FileNonList,
                 FileCorrupt}
    /\ file0 = file
    /\ appended = <<>>
    /\ ioFault = FALSE
    /\ last = NoLast
    /\ calls = 0
    /\ fix = FixIdle
    /\ bf = BackfillIdle
    /\ procs = ProcsIdle
    /\ ViewsIdle
    /\ api = ApiIdle
    /\ norm = NormIdle
    /\ score = ScoreIdle
    /\ play = PlayIdle

\* A request enters _append_mistake(obj), _load_mistakes_list() or
\* _mistakes_count().
Begin(r, op, obj) ==
    /\ procs[r].pc = "idle"
    /\ procs' = [procs EXCEPT ![r] = [@ EXCEPT !.pc = "call", !.op = op, !.obj = obj]]
    /\ UNCHANGED <<remote, file>>
    /\ StepsFrame

\* _upstash_call returns to the operation: with the store's answer, or with
\* None after a transport failure or the timeout.
ClientReturns(r, net) ==
    LET p == procs[r]
        argsOk == p.op # "append" \/ Utf8Encodable(p.obj)
        sent == RequestSent(env, argsOk)
        applied == sent /\ ServerApplies(net) /\ p.op = "append"
        pushed == IF applied THEN <<JsonDumps(p.obj)>> \o remote ELSE remote
        res == UpstashCall(env, argsOk, net, StoreValue(p.op, pushed))
        calls1 == IF sent /\ p.remoteCalls < 2 THEN p.remoteCalls + 1 ELSE p.remoteCalls
    IN /\ p.pc = "call"
       /\ net \in NetFor(sent)
       /\ remote' = pushed
       /\ procs' = [procs EXCEPT ![r] =
                       [p EXCEPT !.pc = AfterCall(p.op, res),
                                 !.remoteCalls = calls1,
                                 !.out = IF Answered(p.op, res) THEN "remote" ELSE @,
                                 !.ret = RemoteReturn(p.op, res)]]
       /\ UNCHANGED file
       /\ StepsFrame

\* The fallback up to the read of the file.  In _append_mistake an OSError or
\* a json.loads error ends the call; List and Count answer from what they read.
FallbackRead(r, io) ==
    LET p == procs[r]
        touched == p.op = "append" \/ file.kind # "missing"
        dropped == io = "oserror" \/ file.kind = "corrupt"
        count == IF io = "ok" /\ file.kind = "list" THEN Len(file.items) ELSE 0
    IN /\ p.pc = "fallback"
       /\ io \in IoFor(touched)
       /\ procs' = [procs EXCEPT ![r] =
             CASE p.op = "append" ->
                    [p EXCEPT !.pc = IF dropped THEN "done" ELSE "write",
                              !.items = IF dropped THEN <<>> ELSE ReadItems(file),
                              !.at = [q \in Requests |-> procs[q].pc],
                              !.fallbacks = @ + 1,
                              !.out = IF dropped THEN "dropped" ELSE @]
               [] p.op = "list" ->
                    [p EXCEPT !.pc = "done", !.fallbacks = @ + 1, !.out = "local",
                              !.ret = ListVal(IF file.kind = "missing" THEN <<>>
                                              ELSE LocalList(file, io))]
               [] p.op = "count" ->
                    [p EXCEPT !.pc = "done", !.fallbacks = @ + 1, !.out = "local",
                              !.ret = IntVal(count)]]
       /\ UNCHANGED <<remote, file>>
       /\ StepsFrame

\* write_text opens the file for writing: the file is emptied, or open raises.
FallbackOpen(r, io) ==
    LET p == procs[r]
    IN /\ p.pc = "write"
       /\ io \in IoOutcomes
       /\ file' = IF io = "ok" THEN FileBlank ELSE file
       /\ procs' = [procs EXCEPT ![r] =
                       [p EXCEPT !.pc = IF io = "ok" THEN "flush" ELSE "done",
                                 !.out = IF io = "ok" THEN @ ELSE "dropped"]]
       /\ UNCHANGED remote
       /\ StepsFrame

\* write_text writes items + [obj] from the start of the file and closes it.
\* A record that cannot be encoded raises before anything is written.  When
\* another request wrote since this one emptied the file, the bytes of this
\* write replace the first bytes of the other's: the file holds this write's
\* list when it is at least as long, else text that is not JSON.
FallbackFlush(r, content) ==
    LET p == procs[r]
        mine == FileList(Append(p.items, p.obj))
    IN /\ p.pc = "flush"
       /\ IF ~Utf8Encodable(p.obj) THEN content = file
          ELSE IF file.kind = "blank" THEN content = mine
          ELSE content \in {mine, FileCorrupt}
       /\ file' = content
       /\ procs' = [procs EXCEPT ![r] =
                       [p EXCEPT !.pc = "done",
                                 !.out = IF Utf8Encodable(p.obj) THEN "written"
                                         ELSE "dropped"]]
       /\ UNCHANGED remote
       /\ StepsFrame

\* The steps of request r once it has entered an operation.
StepOf(r) ==
    \/ \E net \in NetOutcomes : ClientReturns(r, net)
    \/ \E io \in IoOutcomes : FallbackRead(r, io)
    \/ \E io \in IoOutcomes : FallbackOpen(r, io)
    \/ \E content \in {file, FileCorrupt, FileList(Append(procs[r].items, procs[r].obj))} :
           FallbackFlush(r, content)

NextSteps ==
    \/ \E r \in Requests, op \in StoreOps, obj \in Objs : Begin(r, op, obj)
    \/ \E r \in Requests : StepOf(r)

SpecSteps == InitSteps /\ [][NextSteps]_vars

\* A request that has entered an operation keeps running: the remote call
\* ends with an answer, an error or the timeout of urlopen, and the file
\* operations end.
SpecStepsFair == SpecSteps /\ \A r \in Requests : WF_vars(StepOf(r))

-----------------------------------------------------------------------------
(* Specification SpecApi: POST requests to the submit endpoint api_mistake *)
(* of src/mcq/quiz/views.py ("mcq") or of src/quiz/views.py ("legacy").    *)

Variants == {"mcq", "legacy"}

\* Request bodies: a JSON object (named by the record it holds), a JSON list,
\* a JSON number, text that is not JSON, bytes that are not UTF-8, nothing.
Bodies == Objs \cup {"list", "number", "notjson", "notutf8", "empty"}

\* json.loads(request.body.decode("utf-8")): the kind of value, or the error.
Payload(body) ==
    CASE body \in Objs -> "dict"
      [] body \in {"list", "number"} -> "other"
      [] body = "notutf8" -> "unicodeerror"
      [] OTHER -> "jsonerror"

\* The file operations of the legacy _append_mistake: mkdir or write_text
\* raises OSError, or only the read does.
LegacyIoOutcomes == IoOutcomes \cup {"readerror"}

\* _append_mistake of src/quiz/views.py: only the read is inside the try.
LegacyAppend(f, obj, io) ==
    IF io = "oserror" THEN [file |-> f, raised |-> TRUE]
    ELSE LET items == IF io = "readerror" \/ f.kind # "list" THEN <<>> ELSE f.items
         IN IF Utf8Encodable(obj)
            THEN [file |-> FileList(Append(items, obj)), raised |-> FALSE]
            ELSE [file |-> FileBlank, raised |-> TRUE]

\* The response of a view: a JsonResponse, or the exception that leaves it.
ApiResponse(variant, body, status, appendRaised, raised, changed) ==
    [phase |-> "answered", variant |-> variant, body |-> body, payload |-> Payload(body),
     status |-> status, ok |-> (status = 200), appendRaised |-> appendRaised,
     raised |-> raised, changed |-> changed]

ApiFrame ==
    UNCHANGED <<env, file0, appended, ioFault, last, norm, score, play, fix, bf, procs, viewVars>>

InitApi ==
    /\ env \in {[url |-> "set", token |-> "set"], [url |-> "set", token |-> "unset"]}
    /\ remote = <<>>
    /\ file \in {FileMissing, FileBlank, FileList(<<>>), FileNonList, FileCorrupt}
    /\ file0 = file
    /\ appended = <<>>
    /\ ioFault = FALSE
    /\ last = NoLast
    /\ calls = 0
    /\ fix = FixIdle
    /\ bf = BackfillIdle
    /\ procs = ProcsIdle
    /\ ViewsIdle
    /\ api \in {[ApiIdle EXCEPT !.variant = v] : v \in Variants}
    /\ norm = NormIdle
    /\ score = ScoreIdle
    /\ play = PlayIdle

\* api_mistake of src/mcq/quiz/views.py on one request.
ApiMistake(body, net, io) ==
    LET isDict == Payload(body) = "dict"
        sent == isDict /\ RequestSent(env, Utf8Encodable(body))
        applied == sent /\ ServerApplies(net)
        pushed == IF applied THEN <<JsonDumps(body)>> \o remote ELSE remote
        res == UpstashCall(env, Utf8Encodable(body), net, IntVal(Len(pushed)))
        fellBack == isDict /\ ~PushSucceeded(res)
        written == IF fellBack THEN LocalAppend(file, body, io) ELSE file
    IN /\ api.variant = "mcq"
       /\ calls < MaxOps
       /\ net \in NetFor(sent)
       /\ io \in IoFor(fellBack)
       /\ remote' = pushed
       /\ file' = written
       /\ api' = ApiResponse("mcq", body, IF isDict THEN 200 ELSE 400, FALSE, FALSE,
                             pushed # remote \/ written # file)
       /\ calls' = calls + 1
       /\ ApiFrame

\* api_mistake of src/quiz/views.py on one request.
LegacyApiMistake(body, io) ==
    LET payload == Payload(body)
        append == IF payload = "dict" THEN LegacyAppend(file, body, io)
                  ELSE [file |-> file, raised |-> FALSE]
        raised == append.raised \/ payload = "unicodeerror"
    IN /\ api.variant = "legacy"
       /\ calls < MaxOps
       /\ io \in IF payload = "dict"
                 THEN (IF file.kind = "missing" THEN IoOutcomes ELSE LegacyIoOutcomes)
                 ELSE {"ok"}
       /\ file' = append.file
       /\ api' = ApiResponse("legacy", body,
                             IF raised THEN 500 ELSE IF payload = "dict" THEN 200 ELSE 400,
                             append.raised, raised, append.file # file)
       /\ calls' = calls + 1
       /\ UNCHANGED remote
       /\ ApiFrame

NextApi ==
    \/ \E body \in Bodies, net \in NetOutcomes, io \in IoOutcomes : ApiMistake(body, net, io)
    \/ \E body \in Bodies, io \in LegacyIoOutcomes : LegacyApiMistake(body, io)

SpecApi == InitApi /\ [][NextApi]_vars

-----------------------------------------------------------------------------
(* Specification SpecHome: the catalog view over a data directory into     *)
(* which quiz files are put and in which the fallback of Append creates    *)
(* mistakes.json.                                                          *)

\* MISTAKES_PATH relative to DATA_DIR.
MistakesFile == <<"mistakes.json">>

\* The entries that can lie under data/, relative to it, in the order of
\* sorted() on paths (segment by segment, upper case before lower case).
\* old.json is a directory, the others are files.
HomePaths ==
    << <<"Equity", "a.json">>, <<"Equity", "sub", "A.json">>, <<"UP.JSON">>,
       <<"fixed", "c.json">>, MistakesFile, <<"notes.txt">>, <<"ok.json">>, <<"old.json">> >>

QuizPaths == {HomePaths[i] : i \in DOMAIN HomePaths} \ {MistakesFile}

IsFile(p) == p # <<"old.json">>

\* The pattern "*.json" of rglob on the entry's name; it tells upper case
\* from lower case.
MatchesJson(p) == p[Len(p)] \in {"a.json", "A.json", "c.json", "mistakes.json", "ok.json", "old.json"}

\* Path(fname).stem
Stem(p) ==
    CASE p[Len(p)] = "a.json" -> "a"
      [] p[Len(p)] = "A.json" -> "A"
      [] p[Len(p)] = "c.json" -> "c"
      [] p[Len(p)] = "mistakes.json" -> "mistakes"
      [] p[Len(p)] = "ok.json" -> "ok"
      [] p[Len(p)] = "old.json" -> "old"
      [] p[Len(p)] = "UP.JSON" -> "UP"
      [] OTHER -> "notes"

\* The place of s.lower() among the lower-cased stems and section names.
LowerKey(str) ==
    CASE str \in {"a", "A"} -> 1
      [] str = "c" -> 2
      [] str = "Equity" -> 3
      [] str = "fixed" -> 4
      [] str = "General" -> 5
      [] str = "mistakes" -> 6
      [] str = "notes" -> 7
      [] str = "ok" -> 8
      [] str = "old" -> 9
      [] OTHER -> 10

\* The entries under data/: the quiz files put there, and mistakes.json once
\* the store has written it.
TreeOf(tree, f) == tree \cup (IF f.kind = "missing" THEN {} ELSE {MistakesFile})

\* A catalog that leaves out the mistake-store file.
RGlobNoMistakes(entries) ==
    SelectSeq(HomePaths, LAMBDA p : p \in entries /\ MatchesJson(p) /\ p # MistakesFile)

\* sorted(DATA_DIR.rglob("*.json"))
RGlob(entries) == SelectSeq(HomePaths, LAMBDA p : p \in entries /\ MatchesJson(p))

\* section of home: the first segment, "General" at the root.
Section(p) == IF Len(p) = 1 THEN "General" ELSE p[1]

CatalogEntry(p) == [name |-> Stem(p), relpath |-> p]

\* sorted(items, key=lower-cased name): entries with equal keys keep their order.
RECURSIVE InsertByName(_, _)
InsertByName(items, e) ==
    IF items = <<>> THEN <<e>>
    ELSE IF LowerKey(items[Len(items)].name) <= LowerKey(e.name) THEN Append(items, e)
    ELSE Append(InsertByName(SubSeq(items, 1, Len(items) - 1), e), items[Len(items)])

RECURSIVE SortedByName(_)
SortedByName(items) ==
    IF items = <<>> THEN <<>>
    ELSE InsertByName(SortedByName(SubSeq(items, 1, Len(items) - 1)), items[Len(items)])

\* sorted(groups.keys(), key=lower-cased section)
RECURSIVE SortedSections(_)
SortedSections(secs) ==
    IF secs = {} THEN <<>>
    ELSE LET first == CHOOSE x \in secs : \A y \in secs : LowerKey(x) <= LowerKey(y)
         IN <<first>> \o SortedSections(secs \ {first})

\* grouped of home.
Grouped(listing) ==
    LET secs == SortedSections({Section(listing[i]) : i \in DOMAIN listing})
        ItemsIn(sec) == SelectSeq(listing, LAMBDA p : Section(p) = sec)
        Entries(paths) == [i \in DOMAIN paths |-> CatalogEntry(paths[i])]
    IN [i \in DOMAIN secs |->
            [section |-> secs[i], items |-> SortedByName(Entries(ItemsIn(secs[i])))]]

HomeFrame ==
    UNCHANGED <<env, remote, file0, appended, ioFault, last, norm, score, play, fix, bf, procs,
                api, cnt, san, quiz, sess>>

InitHome ==
    /\ env = [url |-> "unset", token |-> "unset"]
    /\ remote = <<>>
    /\ file \in {FileMissing, FileList(<<>>)}
    /\ file0 = file
    /\ appended = <<>>
    /\ ioFault = FALSE
    /\ last = NoLast
    /\ calls = 0
    /\ fix = FixIdle
    /\ bf = BackfillIdle
    /\ procs = ProcsIdle
    /\ api = ApiIdle
    /\ norm = NormIdle
    /\ score = ScoreIdle
    /\ play = PlayIdle
    /\ home \in {[HomeIdle EXCEPT !.tree = t] : t \in SUBSET QuizPaths}
    /\ cnt = CountIdle
    /\ san = SanIdle
    /\ quiz = QuizIdle
    /\ sess = SessIdle

\* A wrong answer is recorded while the remote store is not configured:
\* the fallback of _append_mistake writes data/mistakes.json.
RecordMistake(obj, io) ==
    /\ calls < MaxOps
    /\ file' = LocalAppend(file, obj, io)
    /\ calls' = calls + 1
    /\ home' = [home EXCEPT !.phase = "idle"]
    /\ HomeFrame

\* home(request)
Home(io) ==
    /\ io \in IoFor(file.kind # "missing")
    /\ home' = [home EXCEPT !.phase = "shown",
                            !.groups = Grouped(RGlob(TreeOf(home.tree, file))),
                            !.mistakes_count = CountValue(None, file, io)]
    /\ UNCHANGED <<file, calls>>
    /\ HomeFrame

NextHome ==
    \/ \E obj \in Objs, io \in IoOutcomes : RecordMistake(obj, io)
    \/ \E io \in IoOutcomes : Home(io)

SpecHome == InitHome /\ [][NextHome]_vars

-----------------------------------------------------------------------------
(* Specification SpecCount: the count endpoint api_mistakes_count, between *)
(* Appends that fill the two stores.                                       *)

\* source of api_mistakes_count.
Source(e) == IF UpstashCfg(e) THEN "upstash" ELSE "local"

\* The store whose length _mistakes_count returned: the remote list when
\* LLEN answered an integer, else the local file (0 when it cannot be read).
ObtainedFrom(res) == IF UpstashScalar(res).t = "int" THEN "upstash" ELSE "local"

InitCount ==
    /\ env \in {[url |-> "set", token |-> "set"], [url |-> "set", token |-> ""],
                [url |-> "unset", token |-> "unset"]}
    /\ remote \in {<<>>, <<Junk>>}
    /\ file \in {FileMissing, FileList(<<>>), FileCorrupt}
    /\ file0 = file
    /\ appended = <<>>
    /\ ioFault = FALSE
    /\ last = NoLast
    /\ calls = 0
    /\ fix = FixIdle
    /\ bf = BackfillIdle
    /\ procs = ProcsIdle
    /\ ViewsIdle
    /\ api = ApiIdle
    /\ norm = NormIdle
    /\ score = ScoreIdle
    /\ play = PlayIdle

\* api_mistakes_count(request)
ApiMistakesCount(net, io) ==
    LET sent == RequestSent(env, TRUE)
        res == UpstashCall(env, TRUE, net, IntVal(Len(remote)))
        fellBack == UpstashScalar(res).t # "int"
    IN /\ net \in NetFor(sent)
       /\ io \in IoFor(fellBack /\ file.kind # "missing")
       /\ cnt' = [phase |-> "answered", status |-> 200, ok |-> TRUE,
                  count |-> CountValue(res, file, io), source |-> Source(env),
                  obtained |-> ObtainedFrom(res)]
       /\ UNCHANGED <<storeVars, norm, score, play, fix, bf, procs, api, home, san, quiz, sess>>

NextCount ==
    \/ \E obj \in Objs, net \in NetOutcomes, io \in IoOutcomes : AppendMistake(obj, net, io)
    \/ \E net \in NetOutcomes, io \in IoOutcomes : ApiMistakesCount(net, io)

SpecCount == InitCount /\ [][NextCount]_vars

-----------------------------------------------------------------------------
(* Specification SpecSan: sanitize of sanitize_latex.py on one text, and   *)
(* again on its own output.  A text is a sequence of characters; "bs" is   *)
(* the backslash and "nl" the line feed.                                   *)

MaxText == 6

SanChars == {"$", "bs", "a", " ", "1", "+", "nl"}

\* [A-Za-z], \s and [+\-*/=^_\\] on the characters of the model and on the
\* letters the replacement brings in.
IsLetter(c) == c \in {"a", "U", "S", "D"}
IsSpace(c) == c \in {" ", "nl"}
IsOperator(c) == c \in {"+", "bs"}

\* The longest stretch matched by [^$\n]* from position i on.
RECURSIVE RunFrom(_, _)
RunFrom(text, i) ==
    IF i > Len(text) \/ text[i] \in {"$", "nl"} THEN <<>>
    ELSE <<text[i]>> \o RunFrom(text, i + 1)

Has(run, Class(_)) == \E k \in DOMAIN run : Class(run[k])

\* MONEYISH_INLINE_DOLLAR matches at position i: an opening $ that no
\* backslash precedes, a stretch without $ and line feed that holds white
\* space and a letter and no operator or backslash, and a closing $.
MatchesAt(text, i) ==
    LET run == RunFrom(text, i + 1)
        end == i + Len(run) + 1
    IN /\ text[i] = "$"
       /\ i = 1 \/ text[i - 1] # "bs"
       /\ Has(run, IsSpace) /\ Has(run, IsLetter) /\ ~Has(run, IsOperator)
       /\ end <= Len(text) /\ text[end] = "$"

\* re.sub from position i on: matches are taken from left to right and do
\* not overlap; each becomes "USD " and the stretch between the two $.
RECURSIVE SubFrom(_, _)
SubFrom(text, i) ==
    IF i > Len(text) THEN <<>>
    ELSE IF MatchesAt(text, i)
         THEN LET run == RunFrom(text, i + 1)
              IN <<"U", "S", "D", " ">> \o run \o SubFrom(text, i + Len(run) + 2)
         ELSE <<text[i]>> \o SubFrom(text, i + 1)

\* sanitize(text)
Sanitize(text) == SubFrom(text, 1)

SanTexts == UNION {[1 .. n -> SanChars] : n \in 0 .. MaxText}

SanFrame == UNCHANGED <<storeVars, norm, score, play, fix, bf, procs, api, home, cnt, quiz, sess>>

InitSan ==
    /\ env = [url |-> "unset", token |-> "unset"]
    /\ remote = <<>>
    /\ file = FileMissing
    /\ file0 = FileMissing
    /\ appended = <<>>
    /\ ioFault = FALSE
    /\ last = NoLast
    /\ calls = 0
    /\ fix = FixIdle
    /\ bf = BackfillIdle
    /\ procs = ProcsIdle
    /\ api = ApiIdle
    /\ norm = NormIdle
    /\ score = ScoreIdle
    /\ play = PlayIdle
    /\ home = HomeIdle
    /\ cnt = CountIdle
    /\ san \in {[SanIdle EXCEPT !.text = t] : t \in SanTexts}
    /\ quiz = QuizIdle
    /\ sess = SessIdle

\* walk(x) on a string: once = sanitize(text); a second run of the script
\* over the rewritten file gives twice = sanitize(once).
SanitizeText ==
    /\ san.phase = "idle"
    /\ san' = [san EXCEPT !.phase = "done", !.once = Sanitize(san.text),
                          !.twice = Sanitize(Sanitize(san.text))]
    /\ SanFrame

NextSan == SanitizeText

SpecSan == InitSan /\ [][NextSan]_vars

-----------------------------------------------------------------------------
(* Specification SpecQuiz: one page of play or master requested with GET   *)
(* and submitted with POST.  Each request loads the questions and draws an *)
(* order of its own; nothing of the order rendered is kept between the two *)
(* requests, and the form carries q{i} only.                               *)

QuizViews == {"play", "master"}

\* The questions a view loads: play the file named, master every file under
\* the data directory in the order of sorted(DATA_DIR.rglob("*.json")).
Loaded(view) ==
    IF view = "play" THEN QuizOf(<<"srv", "data", "ok.json">>)
    ELSE QuizOf(<<"srv", "data", "A.JSON">>) \o QuizOf(<<"srv", "data", "ok.json">>)

\* random.shuffle(questions) of play; random.sample(all_questions, min(180, n))
\* of master, which for n <= 180 is every question in a random order.
Drawn(view) == Shuffles(Loaded(view))

QuizFrame ==
    UNCHANGED <<env, remote, file0, last, calls, norm, score, play, fix, bf, procs, api, home,
                cnt, san, sess>>

InitQuiz ==
    /\ env = [url |-> "unset", token |-> "unset"]
    /\ remote = <<>>
    /\ file = FileMissing
    /\ file0 = FileMissing
    /\ appended = <<>>
    /\ ioFault = FALSE
    /\ last = NoLast
    /\ calls = 0
    /\ fix = FixIdle
    /\ bf = BackfillIdle
    /\ procs = ProcsIdle
    /\ api = ApiIdle
    /\ norm = NormIdle
    /\ score = ScoreIdle
    /\ play = PlayIdle
    /\ home = HomeIdle
    /\ cnt = CountIdle
    /\ san = SanIdle
    /\ quiz \in {[QuizIdle EXCEPT !.view = v] : v \in QuizViews}
    /\ sess = SessIdle

\* GET: the questions are drawn and rendered in that order, nothing is scored.
QuizGet(order) ==
    /\ quiz.phase = "idle"
    /\ order \in Drawn(quiz.view)
    /\ quiz' = [quiz EXCEPT !.phase = "shown", !.shown = order]
    /\ UNCHANGED <<file, appended, ioFault>>
    /\ QuizFrame

\* POST of the form the GET rendered: the questions are drawn again, field
\* q{i} is scored against position i of this draw, and every answered and
\* wrong question of this draw goes to _append_mistake.
QuizPost(order, checked, io) ==
    LET mistakes == Mistaken(order, checked)
    IN /\ quiz.phase = "shown"
       /\ order \in Drawn(quiz.view)
       /\ checked \in [DOMAIN order -> Selections]
       /\ io \in IoFor(mistakes # <<>>)
       /\ file' = AppendAll(file, mistakes, io)
       /\ appended' = appended \o mistakes
       /\ ioFault' = (ioFault \/ io = "oserror")
       /\ quiz' = [quiz EXCEPT !.phase = "scored", !.order = order, !.checked = checked,
                               !.correctness = Correctness(order, checked),
                               !.result = ScoreAndStreak(Correctness(order, checked)),
                               !.mistakes = mistakes]
       /\ QuizFrame

NextQuiz ==
    \/ \E order \in UNION {Drawn(v) : v \in QuizViews} : QuizGet(order)
    \/ \E order \in UNION {Drawn(v) : v \in QuizViews}, io \in IoOutcomes :
          \E checked \in [DOMAIN order -> Selections] : QuizPost(order, checked, io)

SpecQuiz == InitQuiz /\ [][NextQuiz]_vars

-----------------------------------------------------------------------------
(* Specification SpecSess: the single-question trainer of                  *)
(* src/quiz/views.py on one session: mcq requested with GET or POST, and   *)
(* reset, in any order.  The session holds streak, correct, answered,      *)
(* order, idx and feedback, or none of the first five after reset.         *)

\* len(LEGACY_QUESTIONS)
MaxQuestions == 3
\* Requests made of one session.
MaxRequests == 4

\* list(range(len(LEGACY_QUESTIONS)))
QuestionIndexes == [i \in 1 .. MaxQuestions |-> i - 1]

\* q.get("answerIndex") of question k
AnswerIndex(k) == k % 2

\* The record of a question as mcq hands it to _append_mistake.
LegacyRecord(k) == IF AnswerIndex(k) = 0 THEN "q1" ELSE "q2"

\* s["idx"] += 1 without the test that follows it.
AdvanceNoWrap(s, reshuffled) == [s EXCEPT !.idx = s.idx + 1]

\* s["idx"] += 1; past the end the order is shuffled in place and idx is 0.
Advance(s, reshuffled) ==
    IF s.idx + 1 >= Len(s.order)
    THEN [s EXCEPT !.order = reshuffled, !.idx = 0]
    ELSE [s EXCEPT !.idx = s.idx + 1]

\* _init_session(s): the counters default to 0; a session without an order
\* gets a shuffled one and idx 0; feedback defaults to "".
InitSession(s, drawn) ==
    LET f == IF s.feedback = "absent" THEN "" ELSE s.feedback
    IN IF s.has
       THEN [s EXCEPT !.feedback = f]
       ELSE [s EXCEPT !.has = TRUE, !.streak = 0, !.correct = 0, !.answered = 0,
                      !.order = drawn, !.idx = 0, !.feedback = f]

\* _current_question(s) is evaluated on this order and idx.
Evaluated(s) == [evaluated |-> TRUE, order |-> s.order, idx |-> s.idx]

\* LEGACY_QUESTIONS[s["order"][s["idx"]]]
CurrentQuestion(s) == s.order[s.idx + 1]

SessFrame ==
    UNCHANGED <<env, remote, file0, last, calls, norm, score, play, fix, bf, procs, api, home,
                cnt, san, quiz>>

InitSess ==
    /\ env = [url |-> "unset", token |-> "unset"]
    /\ remote = <<>>
    /\ file = FileMissing
    /\ file0 = FileMissing
    /\ appended = <<>>
    /\ ioFault = FALSE
    /\ last = NoLast
    /\ calls = 0
    /\ fix = FixIdle
    /\ bf = BackfillIdle
    /\ procs = ProcsIdle
    /\ api = ApiIdle
    /\ norm = NormIdle
    /\ score = ScoreIdle
    /\ play = PlayIdle
    /\ home = HomeIdle
    /\ cnt = CountIdle
    /\ san = SanIdle
    /\ quiz = QuizIdle
    /\ sess = [SessIdle EXCEPT !.phase = "session"]

\* The order _init_session draws; a session that holds one draws nothing.
DrawFor(s) == IF s.has THEN {s.order} ELSE Shuffles(QuestionIndexes)

\* random.shuffle(s["order"]) of a POST that reaches the end of the order.
ReshuffleFor(s) == IF s.idx + 1 >= Len(s.order) THEN Shuffles(s.order) ELSE {s.order}

\* mcq on GET: the current question is rendered and feedback is popped.
McqGet(drawn) ==
    LET s == InitSession(sess, drawn)
    IN /\ sess.phase = "session"
       /\ sess.reqs < MaxRequests
       /\ drawn \in DrawFor(sess)
       /\ sess' = [s EXCEPT !.feedback = "absent", !.at = Evaluated(s), !.request = "get",
                            !.reqs = sess.reqs + 1]
       /\ UNCHANGED <<file, appended, ioFault>>
       /\ SessFrame

\* mcq on POST with a choice that is missing or no integer.
McqPostInvalid(drawn) ==
    LET s == InitSession(sess, drawn)
    IN /\ sess.phase = "session"
       /\ sess.reqs < MaxRequests
       /\ drawn \in DrawFor(sess)
       /\ sess' = [s EXCEPT !.feedback = "Pick an option.", !.at = Evaluated(s),
                            !.request = "invalid", !.reqs = sess.reqs + 1]
       /\ UNCHANGED <<file, appended, ioFault>>
       /\ SessFrame

\* mcq on POST with an integer choice: the answer is counted, a wrong one is
\* handed to _append_mistake, and the session moves to the next question.
McqPost(chosen_idx, drawn, reshuffled, io) ==
    LET s == InitSession(sess, drawn)
        q == CurrentQuestion(s)
        right == chosen_idx = AnswerIndex(q)
        counted == IF right
                   THEN [s EXCEPT !.answered = s.answered + 1, !.streak = s.streak + 1,
                                  !.correct = s.correct + 1, !.feedback = "Correct."]
                   ELSE [s EXCEPT !.answered = s.answered + 1, !.streak = 0,
                                  !.feedback = "Wrong."]
    IN /\ sess.phase = "session"
       /\ sess.reqs < MaxRequests
       /\ drawn \in DrawFor(sess)
       /\ reshuffled \in ReshuffleFor(s)
       /\ io \in IF right THEN {"ok"}
                 ELSE IF file.kind = "missing" THEN IoOutcomes ELSE LegacyIoOutcomes
       /\ sess' = [Advance(counted, reshuffled) EXCEPT !.at = Evaluated(s),
                                                       !.request = "post",
                                                       !.reqs = sess.reqs + 1]
       /\ file' = IF right THEN file ELSE LegacyAppend(file, LegacyRecord(q), io).file
       /\ appended' = IF right THEN appended ELSE Append(appended, LegacyRecord(q))
       /\ ioFault' = (ioFault \/ io # "ok")
       /\ SessFrame

\* reset: the six keys are popped from the session.
Reset ==
    /\ sess.phase = "session"
    /\ sess.reqs < MaxRequests
    /\ sess' = [SessIdle EXCEPT !.phase = "session", !.request = "reset",
                                !.reqs = sess.reqs + 1]
    /\ UNCHANGED <<file, appended, ioFault>>
    /\ SessFrame

NextSess ==
    \/ \E drawn \in DrawFor(sess) : McqGet(drawn)
    \/ \E drawn \in DrawFor(sess) : McqPostInvalid(drawn)
    \/ \E chosen_idx \in {0, 1}, drawn \in DrawFor(sess), io \in LegacyIoOutcomes :
          \E reshuffled \in ReshuffleFor(InitSession(sess, drawn)) :
              McqPost(chosen_idx, drawn, reshuffled, io)
    \/ Reset

SpecSess == InitSess /\ [][NextSess]_vars

-----------------------------------------------------------------------------
(* Claims about the mistake store and the client.                          *)

\* The list the fallback of Append is said to read: the file's list, or
\* nothing when the file is missing, blank, unparseable or not a list.
ItemsOf(f) == IF f.kind = "list" THEN f.items ELSE <<>>

AppendStep == calls' = calls + 1 /\ last'.op = "append"

\* C1: with the remote store disabled and the local file missing or holding
\* an empty list at the start, after N sequential Appends (and no file system
\* fault) the local file holds exactly the N appended records once each in
\* append order, List returns them and Count returns N.
C1_AppendThenListRoundTrip ==
    (~UpstashCfg(env) /\ file0 \in {FileMissing, FileList(<<>>)} /\ ~ioFault)
        => /\ ItemsOf(file) = appended
           /\ \A net \in NetOutcomes :
                /\ ListItems(UpstashCall(env, TRUE, net, ListVal(remote)), file, "ok")
                       = appended
                /\ CountValue(UpstashCall(env, TRUE, net, IntVal(Len(remote))), file, "ok")
                       = Len(appended)

\* C2: Append appends the record to the local file if and only if LPUSH did
\* not report success: a non-error structured answer leaves the file
\* unchanged; an answer carrying an error, or an unavailable client, makes
\* Append read the list, append the record and rewrite the file.  Stated for
\* the cases the claim cannot be mistaken about: the file system works, the
\* record is encodable, and the answer does not hold "result" and "error" both.
C2_LocalAppendIffPushFailed ==
    [][(AppendStep /\ last'.io = "ok" /\ Utf8Encodable(last'.obj)
           /\ ~(last'.res.hasResult /\ last'.res.hasError))
          => IF last'.res.kind = "dict" /\ ~last'.res.hasError
             THEN file' = file
             ELSE file' = FileList(Append(ItemsOf(file), last'.obj))]_vars

\* C3: when Append takes the fallback and the local file exists but is
\* unreadable, unparseable or not a list, the file is treated as empty and
\* rewritten to hold exactly the one new record.
C3_CorruptFileTreatedAsEmpty ==
    [][(AppendStep /\ last'.fellBack /\ last'.io = "ok"
           /\ file.kind \in {"corrupt", "nonlist"} /\ Utf8Encodable(last'.obj))
          => file' = FileList(<<last'.obj>>)]_vars

TransportFailed(l) == l.sent /\ l.net \in {"unreachable", "lost"}
BodyUndecodable(l) == l.sent /\ l.net = "raw"

C5_DisabledClientUnavailable ==
    ((env.url = "unset" \/ env.token = "unset") /\ last.op # "none")
        => /\ last.res = None
           /\ ~last.sent
           /\ UpstashScalar(last.res) = NoVal

C5_Witness == env.url = "set" /\ env.token = "unset" /\ last.op = "lset"

-----------------------------------------------------------------------------
(* Claims about the question normaliser.                                   *)

\* C6: for every input of a recognised shape, _normalize_questions fails on
\* no record and drops none: it returns one Question per input record.
C6_NoRecordFailsOrIsDropped ==
    (norm.phase # "input" /\ Recognised(norm.raw))
        => /\ ~norm.result.raised
           /\ Len(norm.result.out) = Len(RecordsOf(norm.raw))

\* A record already in canonical form: exactly text, choices, answer,
\* explanation and extras, of the canonical types.
Canonical(q) ==
    /\ q.isDict
    /\ q.text.t = "str" /\ q.choices.t = "list" /\ q.answer.t = "int"
    /\ q.explanation.t \in {"none", "str"}
    /\ q.extras.t = "dict" /\ q.extras.m["junk"] = "absent"
    /\ q.top = NoExtras
    /\ \A v \in {q.stem, q.question, q.answer_letter, q.options, q.correct_answer,
                 q.explanations, q.rationale} : v = PyAbsent

\* C8: for Questions already in canonical form normalising is idempotent:
\* normalising the output of _normalize_questions returns the same Questions.
C8_NormalizeIdempotent ==
    (/\ norm.phase = "twice"
     /\ norm.raw.t = "list"
     /\ \A i \in DOMAIN norm.raw.l : Canonical(norm.raw.l[i]))
        => norm.again = norm.result

\* The record takes the options branch of norm_one.
InOptionsBranch(q) ==
    /\ q.isDict
    /\ q.options.t = "dict" /\ q.options.d # <<>>
    /\ ~(q.choices.t = "list" /\ q.choices.l # <<>>)

\* C9: for a record with a non-empty letter-keyed options mapping and no
\* non-empty choices list, the normalised choices are the mapping's values
\* (as text repair leaves them) in the alphabetical order of the letters A-Z
\* present as keys, whatever the mapping's iteration order; the options
\* {B: two, A: one} with correct_answer B give choices [one, two], answer 1.
C9_OptionsInAlphabeticalOrder ==
    (norm.phase # "input" /\ ~norm.result.raised)
        => \A i \in DOMAIN RecordsOf(norm.raw) :
               LET q == RecordsOf(norm.raw)[i]
                   out == norm.result.out[i]
                   present == {k \in DOMAIN Letters : HasKey(q.options.d, Letters[k])}
                   rank(k) == Cardinality({j \in present : j <= k})
               IN InOptionsBranch(q)
                      => /\ Len(out.choices) = Cardinality(present)
                         /\ \A k \in present :
                                out.choices[rank(k)]
                                    = FixMojibakeStr(Lookup(q.options.d, Letters[k]))
                         /\ q = ExampleOptions => (out.choices = <<Sx, Sy>> /\ out.answer = 1)

C9_Witness ==
    /\ norm.phase = "once"
    /\ norm.raw = ListInput(<<ExampleOptions>>)
    /\ ~norm.result.raised
    /\ norm.result.out[1].choices = <<Sx, Sy>>
    /\ norm.result.out[1].answer = 1

-----------------------------------------------------------------------------
(* Claims about the play view and the scorer.                              *)

\* C7: for every file name given to the play view, a file is opened only if
\* the resolved path lies inside the data directory and ends in .json (in
\* any letter case); every other name gets a redirect to the catalog, never
\* an exception and never a file read.
C7_PlayGuardRedirects ==
    play.phase = "done"
        => LET inside == /\ play.resolved
                         /\ IsRelativeTo(play.target, Base)
                         /\ EndsWithJson(play.target)
           IN /\ play.read => inside
              /\ ~inside => (play.outcome = "redirect" /\ ~play.read)

\* C10: for every sequence of booleans _score_and_streak returns a current
\* streak no longer than the longest streak, a longest streak no greater
\* than the score, and a score equal to the number of true values.
C10_StreaksWithinScore ==
    score.phase = "done"
        => /\ score.result.streak <= score.result.longest
           /\ score.result.longest <= score.result.score
           /\ score.result.score
                  = Cardinality({i \in DOMAIN score.answers : score.answers[i]})

C10_Witness ==
    /\ score.phase = "done"
    /\ score.answers = <<TRUE, TRUE, FALSE, TRUE>>
    /\ score.result = [score |-> 3, streak |-> 1, longest |-> 2]

\* answers holds a run of k true values starting at position i.
RunOfTrue(answers, i, k) ==
    /\ i >= 1 /\ i + k - 1 <= Len(answers)
    /\ \A j \in i .. i + k - 1 : answers[j]

\* C11: for every sequence of booleans the current streak returned by
\* _score_and_streak is the number of trailing true values (from the end up
\* to the first false) and the longest streak is the length of the longest
\* contiguous run of true values; [true, true, false, true] gives (3, 1, 2)
\* and the empty sequence (0, 0, 0).
C11_StreakIsTrailingLongestIsMaxRun ==
    score.phase = "done"
        => LET a == score.answers
               r == score.result
           IN /\ RunOfTrue(a, Len(a) - r.streak + 1, r.streak)
              /\ r.streak < Len(a) => ~a[Len(a) - r.streak]
              /\ \E i \in 1 .. Len(a) + 1 : RunOfTrue(a, i, r.longest)
              /\ \A i \in 1 .. Len(a) : ~RunOfTrue(a, i, r.longest + 1)
              /\ a = <<TRUE, TRUE, FALSE, TRUE>>
                     => r = [score |-> 3, streak |-> 1, longest |-> 2]
              /\ a = <<>> => r = [score |-> 0, streak |-> 0, longest |-> 0]

C11_Witness ==
    /\ score.phase = "done"
    /\ score.answers = <<TRUE, FALSE, TRUE, TRUE, FALSE, TRUE>>
    /\ score.result.streak = 1
    /\ score.result.longest = 2

-----------------------------------------------------------------------------
(* Claims about text repair.                                               *)

\* C12: _fix_mojibake is idempotent, repairing a repaired string returns it
\* unchanged; a value that is not a string and a string without a marker
\* character are returned unchanged.
C12_FixMojibakeIdempotent ==
    fix.phase = "done"
        => /\ fix.twice = fix.once
           /\ (fix.val.t # "str" \/ ~HasMarker(fix.val.s)) => fix.once = fix.val

-----------------------------------------------------------------------------
(* Claims about List and the order of the mistake list.                    *)

\* The objects of the entries of a remote list that decode, in list order.
RECURSIVE DecodedOf(_)
DecodedOf(entries) ==
    IF entries = <<>> THEN <<>>
    ELSE IF Head(entries)[1] = "json"
         THEN <<Head(entries)[2]>> \o DecodedOf(Tail(entries))
         ELSE DecodedOf(Tail(entries))

\* What the LRANGE of the last operation yielded as usable entries.
UsableRemote ==
    IF last.sent /\ last.net \in {"result", "both"} THEN DecodedOf(remote) ELSE <<>>

\* C13: List returns either the decoded remote entries in the order the
\* store returned them, or the contents of the local file in file order,
\* never a mixture; the local file is used only when LRANGE yielded no
\* usable entry (unavailable, not a list, empty, nothing decodable).
C13_ListRemoteOrLocalNeverMixed ==
    last.op = "list"
        => IF UsableRemote # <<>>
           THEN last.items = UsableRemote
           ELSE last.items = (IF last.io = "ok" THEN ItemsOf(file) ELSE <<>>)

C13_Witness ==
    /\ last.op = "list"
    /\ Len(remote) >= 2 /\ remote[Len(remote)] = Junk
    /\ file.kind = "list" /\ file.items # <<>>
    /\ last.items = DecodedOf(remote)
    /\ last.items # <<>>

\* Position of a record in the history of Appends, none appended twice.
Distinct(seq) == \A i, j \in DOMAIN seq : seq[i] = seq[j] => i = j
AppendedAt(x) == CHOOSE i \in DOMAIN appended : appended[i] = x

NewestFirst(items) ==
    \A i, j \in DOMAIN items : i < j => AppendedAt(items[i]) > AppendedAt(items[j])

OldestFirst(items) ==
    \A i, j \in DOMAIN items : i < j => AppendedAt(items[i]) < AppendedAt(items[j])

\* C14 as stated: after any sequence of Appends, List returns the records
\* newest first, whichever backing store served the appends.
C14_ListNewestFirst ==
    (last.op = "list" /\ Distinct(appended)) => NewestFirst(last.items)

\* C14: the remote list holds the records newest first and List returns them
\* so when it answers from the remote store; the local file holds them in
\* the order they were appended, oldest first, and List returns them so when
\* it answers from the file.
C14_RemoteNewestLocalOldestFirst ==
    Distinct(appended)
        => /\ NewestFirst(DecodedOf(remote))
           /\ OldestFirst(ItemsOf(file))
           /\ last.op = "list"
                  => IF UsableRemote # <<>>
                     THEN NewestFirst(last.items)
                     ELSE OldestFirst(last.items)

C14_Witness ==
    /\ last.op = "list"
    /\ appended = <<"q1", "q2">>
    /\ file = FileList(<<"q1", "q2">>)
    /\ last.items = <<"q1", "q2">>

-----------------------------------------------------------------------------
(* Claims about the backfill command.                                      *)

\* C15: in apply mode every LSET of Backfill replaces a list entry only with
\* the corrected version of that same entry, so that no mistake record is
\* overwritten by another record or lost, for every interleaving of the
\* LRANGE and the LSETs with Appends of the request path.
C15_LsetRewritesSameEntry ==
    \A i \in DOMAIN bf.writes :
        bf.writes[i].applied => bf.writes[i].replaced = bf.writes[i].source

\* C16: without --apply Backfill issues no LSET and no other write: no step
\* of the command changes the remote list or the local file, whatever it
\* examined and matched, and it reports no update.
C16_DryRunWritesNothing ==
    /\ [](~bf.apply => (bf.writes = <<>> /\ bf.updated = 0))
    /\ [][(~bf.apply /\ bf' # bf) => (remote' = remote /\ file' = file)]_vars

C16_Witness ==
    /\ bf.phase = "done"
    /\ ~bf.apply
    /\ bf.examined = 2
    /\ bf.arr[1] = JsonDumps("bare")
    /\ FillItem(MistakeFields("bare"), bf.bank).changed
    /\ remote = bf.arr

\* What one LSET of the command wrote, against the entry it was made from.
\* missing(str) says when a text or a topic counts as missing.
FillsOnlyMissing(w, missing(_)) ==
    LET src == MistakeFields(w.source[2])
        out == w.item
        matches == MatchList(bf.bank, Signature(src.choices, src.answer))
    IN /\ missing(src.text) \/ missing(src.topic)
       /\ ~missing(src.text) => out.text = src.text
       /\ ~missing(src.topic) => out.topic = src.topic
       /\ out.choices = src.choices /\ out.answer = src.answer
       /\ matches # <<>>
       /\ out.text \in {src.text, matches[1].text}
       /\ out.topic \in {src.topic, matches[1].topic}
       /\ out # src

IsEmpty(str) == str = <<>>
IsBlank(str) == Strip(str) = <<>>

-----------------------------------------------------------------------------
(* Claims about requests running at the same time.                         *)

\* Request r ran the fallback of Append to its end and wrote the file.
Wrote(r) == procs[r].op = "append" /\ procs[r].pc = "done" /\ procs[r].out = "written"

\* Request r read the file before request q opened it for writing.
ReadBeforeWrite(r, q) == procs[r].at[q] \in {"idle", "call", "fallback", "write"}

\* Request r read the file after request q had returned.
RanAfter(r, q) == procs[r].at[q] = "done"

\* C18: the fallback of Append is a read-modify-write in separate steps.  Of
\* two requests that both wrote the file, when each read it before the other
\* opened it for writing the file never holds both records: it holds what
\* was there at the start and one of the two, or what is left of two writes
\* laid over each other; when one read the file after the other had
\* returned, the file holds what was there at the start and both records.
C18_ConcurrentLosesOneSequentialKeepsBoth ==
    \A r \in Requests, q \in Requests :
        r # q /\ Wrote(r) /\ Wrote(q) =>
            /\ ReadBeforeWrite(r, q) /\ ReadBeforeWrite(q, r) =>
                   file \in {FileList(Append(ItemsOf(file0), procs[r].obj)),
                             FileList(Append(ItemsOf(file0), procs[q].obj)),
                             FileCorrupt}
            /\ RanAfter(r, q) =>
                   file = FileList(ItemsOf(file0) \o <<procs[q].obj, procs[r].obj>>)

\* Both requests read the one-record file before either rewrote it; both
\* wrote; the file holds the first record and q2, and q1 is lost.
C18_Witness ==
    /\ file0 = FileList(<<"q1">>)
    /\ Wrote("r1") /\ Wrote("r2")
    /\ procs["r1"].obj = "q1" /\ procs["r2"].obj = "q2"
    /\ ReadBeforeWrite("r1", "r2") /\ ReadBeforeWrite("r2", "r1")
    /\ file = FileList(<<"q1", "q2">>)

\* C19: every Append, List and Count that a request has entered returns,
\* whatever the remote store answers and whether or not it answers before
\* the timeout; a call makes at most one remote call and takes the local
\* fallback at most once, and after its remote call has returned it never
\* goes back to the remote store.
C19_EveryOperationReturnsWithoutRetry ==
    /\ \A r \in Requests : [](procs[r].remoteCalls <= 1 /\ procs[r].fallbacks <= 1)
    /\ [][\A r \in Requests : procs'[r].pc = "call" => procs[r].pc \in {"idle", "call"}]_vars
    /\ [][\A r \in Requests : procs[r].pc = "call" /\ procs'[r].pc = "call" =>
                                  procs'[r] = procs[r]]_vars
    /\ \A r \in Requests : (procs[r].pc # "idle") ~> (procs[r].pc = "done")

\* An Append whose remote call failed and whose fallback wrote the file, and
\* a List whose remote call failed and which answered from the file: each
\* returned after one remote call and one fallback.
C19_Witness ==
    /\ procs["r1"].op = "append" /\ procs["r1"].pc = "done" /\ procs["r1"].out = "written"
    /\ procs["r2"].op = "list" /\ procs["r2"].pc = "done" /\ procs["r2"].out = "local"
    /\ \A r \in Requests : procs[r].remoteCalls = 1 /\ procs[r].fallbacks = 1

-----------------------------------------------------------------------------
(* Claims about the submit endpoint.                                       *)

\* C20: no failure of the mistake-recording path reaches the caller:
\* _append_mistake never raises, the submit endpoint never raises, it
\* answers ok: true (status 200) for every body that is a JSON object,
\* stored or not, and ok: false with status 400 exactly for a body that does
\* not decode or is no object, and then the store is left as it was.
C20_NoFailureSurfaced ==
    api.phase = "answered" =>
        /\ ~api.appendRaised
        /\ ~api.raised
        /\ api.payload = "dict" => api.status = 200 /\ api.ok
        /\ api.payload # "dict" => api.status = 400 /\ ~api.ok /\ ~api.changed

-----------------------------------------------------------------------------
(* Claims about the catalog view.                                          *)

\* The entries of the page, group by group.
CatalogEntries ==
    UNION {{<<home.groups[i].section, home.groups[i].items[j].relpath>> :
               j \in DOMAIN home.groups[i].items} : i \in DOMAIN home.groups}

\* How often a path is shown on the page.
TimesShown(p) ==
    Cardinality({<<i, j>> \in (DOMAIN home.groups) \X (1 .. Len(HomePaths)) :
                    j \in DOMAIN home.groups[i].items /\ home.groups[i].items[j].relpath = p})

\* C21: the page of the catalog view never shows the mistake-store file, and
\* shows every other .json file under data/ exactly once, in the group named
\* by its first path segment (General at the root).
C21_CatalogExcludesMistakesFile ==
    home.phase = "shown" =>
        /\ \A e \in CatalogEntries : e[2] # MistakesFile
        /\ \A p \in home.tree :
               MatchesJson(p) /\ IsFile(p) =>
                   TimesShown(p) = 1 /\ <<Section(p), p>> \in CatalogEntries

-----------------------------------------------------------------------------
(* Claims about the count endpoint.                                        *)

\* C22: whatever the configuration and whatever the remote store does, the
\* source the count endpoint reports (upstash or local) is the store from
\* which the count it reports was obtained.
C22_SourceNamesStoreOfCount ==
    cnt.phase = "answered" => cnt.ok /\ cnt.source = cnt.obtained

-----------------------------------------------------------------------------
(* Claims about the money rewriter.                                        *)

\* C23: sanitize is idempotent: for every text, sanitizing the sanitized
\* text gives the sanitized text.
C23_SanitizeIdempotent ==
    san.phase = "done" => san.twice = san.once

-----------------------------------------------------------------------------
(* Claims about the branches of norm_one.                                  *)

\* The record takes the choices branch of norm_one.
InChoicesBranch(q) == q.isDict /\ q.choices.t = "list" /\ q.choices.l # <<>>

\* The input holds the one record q.
OneRecord == norm.phase # "input" /\ Recognised(norm.raw) /\ Len(RecordsOf(norm.raw)) = 1

\* C24: a record with a non-empty choices list is normalised without
\* raising; its choices are the record's, in order (as text repair leaves
\* them); its answer is the answer field as it stands when that is an
\* integer, in range or not, and 0 when it is not an integer, whatever
\* answer_letter and correct_answer hold.
C24_ChoicesBranchAnswerIsIndexOrZero ==
    OneRecord =>
        LET q == RecordsOf(norm.raw)[1]
        IN InChoicesBranch(q) =>
               /\ ~norm.result.raised
               /\ norm.result.out[1].choices = FixAll(q.choices.l)
               /\ norm.result.out[1].answer = (IF q.answer.t = "int" THEN q.answer.n ELSE 0)

\* The first of the values that the record holds, else the empty string.
FirstPresent(vals) ==
    IF \E i \in DOMAIN vals : vals[i].t # "absent"
    THEN vals[CHOOSE i \in DOMAIN vals :
                  vals[i].t # "absent" /\ \A j \in 1 .. i - 1 : vals[j].t = "absent"]
    ELSE PyStr(<<>>)

\* The first of the values that is truthy, else the empty string.
FirstTruthy(vals) ==
    IF \E i \in DOMAIN vals : Truthy(vals[i])
    THEN vals[CHOOSE i \in DOMAIN vals :
                  Truthy(vals[i]) /\ \A j \in 1 .. i - 1 : ~Truthy(vals[j])]
    ELSE PyStr(<<>>)

\* A field value read as an answer letter: stripped, uppercased, trailing
\* "." removed; no letter when the value is no string.
AsLetter(v) == IF v.t = "str" THEN RStrip(Upper(Strip(v.s)), ".") ELSE <<>>

\* C25: in the options branch the answer letter comes from the first present
\* of correct_answer, answer_letter; when it is one of the derived letters
\* the answer is its position among them, so 0 <= answer < number of
\* choices; otherwise the answer is the integer answer field when there is
\* one, else 0.
C25_OptionsAnswerFromFirstPresentLetter ==
    OneRecord =>
        LET q == RecordsOf(norm.raw)[1]
            letters == LettersPresent(q.options.d)
            letter == AsLetter(FirstPresent(<<q.correct_answer, q.answer_letter>>))
            derived == Len(letter) = 1 /\ \E i \in DOMAIN letters : letters[i] = letter[1]
        IN InOptionsBranch(q) =>
               /\ ~norm.result.raised
               /\ derived =>
                      /\ norm.result.out[1].answer = IndexOf(letters, letter[1]) - 1
                      /\ norm.result.out[1].answer \in 0 .. Len(norm.result.out[1].choices) - 1
               /\ ~derived =>
                      norm.result.out[1].answer = (IF q.answer.t = "int" THEN q.answer.n ELSE 0)

\* C26 as stated: the stem is the first of text, stem, question that is
\* present in the record (after text repair), the empty string only when
\* none is present; a later alias is never used when an earlier one is
\* present.
C26_StemFromFirstPresent ==
    (norm.phase # "input" /\ ~norm.result.raised) =>
        \A i \in DOMAIN RecordsOf(norm.raw) :
            LET q == RecordsOf(norm.raw)[i]
            IN norm.result.out[i].text = FixMojibake(FirstPresent(<<q.text, q.stem, q.question>>))

\* C26: the stem is the first of text, stem, question whose value is truthy
\* (after text repair), the empty string when none is: an alias that is
\* absent, null or empty is passed over for a later one.
C26_StemFromFirstTruthy ==
    (norm.phase # "input" /\ ~norm.result.raised) =>
        \A i \in DOMAIN RecordsOf(norm.raw) :
            LET q == RecordsOf(norm.raw)[i]
            IN norm.result.out[i].text = FixMojibake(FirstTruthy(<<q.text, q.stem, q.question>>))

\* A record with an empty text and a stem: the stem is used.
C26_Witness ==
    /\ norm.phase = "once"
    /\ ~norm.result.raised
    /\ Len(norm.raw.l) = 1
    /\ norm.raw.l[1].text = PyStr(<<>>) /\ norm.raw.l[1].stem = PyStr(Sy)
    /\ norm.result.out[1].text = PyStr(Sy)

-----------------------------------------------------------------------------
(* Claims about the two stores together.                                   *)

\* What _mistakes_count and _load_mistakes_list return when called in the
\* current state and the remote store and the file system behave as net, io.
CountNow(net, io) == CountValue(UpstashCall(env, TRUE, net, IntVal(Len(remote))), file, io)
ListNow(net, io) == ListItems(UpstashCall(env, TRUE, net, ListVal(remote)), file, io)

\* C27: in every state the mistake store reaches through Appends, the value
\* of Count is the number of records List returns, both being called in
\* that state with the remote store and the file system behaving alike.
C27_CountEqualsLengthOfList ==
    \A net \in NetFor(RequestSent(env, TRUE)), io \in IoOutcomes :
        CountNow(net, io) = Len(ListNow(net, io))

\* C28: one call of Append stores its record in at most one of the two
\* stores: no call both pushes the record onto the remote list and appends
\* it to the local file, also when the answer to the LPUSH the store
\* applied is lost or times out.
C28_AppendStoresInAtMostOneStore ==
    [][AppendStep =>
          ~(/\ remote' = <<JsonDumps(last'.obj)>> \o remote
            /\ file' = FileList(Append(ItemsOf(file), last'.obj)))]_vars

\* The questions a page's answers are wrong for, as the user saw the page:
\* field q{i} answered, and not the answer of the question shown at i.
WrongAsShown == Mistaken(quiz.shown, quiz.checked)

\* C29: field q{i} is scored against the question displayed at position i:
\* the order the POST uses is the order the preceding GET rendered, so the
\* correctness, the score and streaks, and the questions recorded as mistakes
\* are those of the questions the user answered.
C29_PostScoresTheOrderShown ==
    quiz.phase = "scored" =>
        /\ quiz.order = quiz.shown
        /\ quiz.correctness = Correctness(quiz.shown, quiz.checked)
        /\ quiz.result = ScoreAndStreak(Correctness(quiz.shown, quiz.checked))
        /\ quiz.mistakes = WrongAsShown

\* order is a permutation of 0 .. n-1
IsPermutation(order) ==
    /\ Len(order) = MaxQuestions
    /\ {order[i] : i \in DOMAIN order} = 0 .. MaxQuestions - 1

\* What the session holds of the five keys, and whether it holds them.
Progress(s) == <<s.has, s.streak, s.correct, s.answered, s.order, s.idx>>

\* Wherever _current_question was evaluated, and on what the next request
\* will evaluate it, order is a permutation of 0 .. n-1 and 0 <= idx < n; the
\* counters satisfy streak <= correct <= answered.
SessionSound ==
    /\ sess.at.evaluated =>
           IsPermutation(sess.at.order) /\ 0 <= sess.at.idx /\ sess.at.idx < MaxQuestions
    /\ sess.has => IsPermutation(sess.order) /\ 0 <= sess.idx /\ sess.idx < MaxQuestions
    /\ sess.streak <= sess.correct
    /\ sess.correct <= sess.answered

\* The step is a POST whose choice is missing or no integer.
InvalidPostStep == sess'.request = "invalid" /\ sess'.reqs = sess.reqs + 1

\* C30 as stated: on one session, after any sequence of GET, POST and reset,
\* order is a permutation of 0 .. n-1, 0 <= idx < n and streak <= correct <=
\* answered wherever _current_question is evaluated, and a POST with a missing
\* or non-integer choice leaves streak, correct, answered, order and idx
\* unchanged.
C30_InvalidPostLeavesSessionUnchanged ==
    /\ []SessionSound
    /\ [][InvalidPostStep => Progress(sess') = Progress(sess)]_vars

\* C30 as the code has it: the same invariants; a POST with a missing or
\* non-integer choice leaves the five keys unchanged on a session that holds
\* an order, and on a session that holds none (new, or after reset) it leaves
\* them as the initialisation of every request sets them: counters 0, a fresh
\* permutation, idx 0.
C30_InvalidPostLeavesSessionAsInitialised ==
    /\ []SessionSound
    /\ [][InvalidPostStep =>
             /\ sess.has => Progress(sess') = Progress(sess)
             /\ ~sess.has =>
                    /\ sess'.has
                    /\ <<sess'.streak, sess'.correct, sess'.answered, sess'.idx>> = <<0, 0, 0, 0>>
                    /\ IsPermutation(sess'.order)]_vars

\* C30 witness: a POST without a valid choice was made of a session that had
\* answered questions, some of them right, and was past the first question
\* of its order.
C30_Witness ==
    /\ sess.request = "invalid"
    /\ sess.answered > sess.correct
    /\ sess.streak > 0
    /\ sess.idx > 0

====
